---- MODULE Spec2Model ----
(***************************************************************************)
(* Wave-function-collapse core of src/core/wfc.py: the grid of per-cell    *)
(* domains, the lowest-entropy selector, the collapser, the propagator and *)
(* the step controller biome_wfc_step.                                      *)
(*                                                                         *)
(* grid[y][x] is a set of tile names, as in the source (a list of rows).   *)
(* Weights are floats in the source; here they are integers in units of    *)
(* 0.5e-9, so that the source's epsilon 1e-9 is Eps = 2 and a weight of 1  *)
(* is positive but below epsilon.                                          *)
(***************************************************************************)
EXTENDS Integers, Sequences, FiniteSets, TLC

\* ---------------------------------------------------------------- bounds
MaxTiles == 3
MaxW == 3
MaxH == 2
MaxCells == 4
\* The most (cell, tile) pairs a full grid may hold.
MaxEntries == 8
\* The most tiles the driver declares, and the most edge labels a declared
\* tile may lack.
MaxDeclared == 2
\* The most (cell, tile) pairs of a grid handed to propagate_constraints alone.
MaxPropEntries == 9
\* The number of draws of the random generator that are followed.
StreamLen == 6
MaxMissing == 1

\* The catalog the tile names are drawn from, in canonical order.
Catalog == <<"A", "B", "C", "D">>

\* Weight values a driver may put in a weight vector: negative, zero,
\* positive below epsilon, positive above epsilon.
WeightVals == {-1, 0, 1, 3}

\* ------------------------------------------------------ program constants
\* 1e-9 of collapse_cell, in units of 0.5e-9.
Eps == 2

\* None, as returned by collapse_cell (a tile name or None) and by
\* find_lowest_entropy_cell (a coordinate pair or None).
NoneTile == "None"
NoneCell == <<>>

\* float("inf") of find_lowest_entropy_cell: above every domain size.
Infinity == Len(Catalog) + 1
\* -float("inf") of collapse_cell: below every weight.
NegInfinity == -2

VARIABLES
    tile_symbols,    \* the catalog, in canonical order
    adjacency_bool,  \* adjacency_bool[i][d][j]
    grid,            \* grid[y][x]: the domain of cell (x, y)
    last,            \* the call that has just returned
    streak,          \* Running results in a row up to now
    stopped,         \* a call has returned terminated or truncated since the grid was created
    decided,         \* <<cell, tile>>: the cell held that single tile after some step on this grid
    twin,            \* a second run of the same calls on a grid of its own
    TILES,           \* the driver's tile declarations: TILES[i] is the edges of tile i
    env,             \* the fields of a WFCWrapper and the cell its last observation shows
    rng,             \* the state of the module random, shared by every caller
    solo,            \* a grid stepped alone, with a random source of its own
    mem              \* the list and set objects of a grid, by identity

vars ==
    <<tile_symbols, adjacency_bool, grid, last, streak, stopped, decided, twin,
      TILES, env, rng, solo, mem>>

\* What the functions of src/core/wfc.py called on a grid and a matrix given
\* to them neither read nor write.
aside == <<TILES, env, rng, solo, mem>>

\* The value of a variable of aside where nothing has been created for it.
Absent == <<>>

\* No driver, wrapper or second caller exists.
NothingAside ==
    /\ TILES = Absent
    /\ env = Absent
    /\ rng = Absent
    /\ solo = Absent
    /\ mem = Absent

\* ------------------------------------------------------------ the catalog
\* tile_to_index = {s: i for i, s in enumerate(tile_symbols)}
TileToIndex(t) == (CHOOSE i \in 1..Len(tile_symbols) : tile_symbols[i] = t) - 1

TileSet == {tile_symbols[i] : i \in 1..Len(tile_symbols)}

\* ------------------------------------------------------------- the grid
Height(g) == Cardinality(DOMAIN g)
Width(g) == Cardinality(DOMAIN g[0])

\* initialize_wfc_grid(width, height, tile_symbols)
InitializeWfcGrid(width, height, symbols) ==
    [y \in 0..(height - 1) |->
        [x \in 0..(width - 1) |-> {symbols[i] : i \in 1..Len(symbols)}]]

CellsOf(g) == {<<x, y>> : x \in 0..(Width(g) - 1), y \in 0..(Height(g) - 1)}

\* The cells of g that hold a single tile, each with its tile.
DecidedCells(g) ==
    {ct \in CellsOf(g) \X TileSet : g[ct[1][2]][ct[1][1]] = {ct[2]}}

\* ---------------------------------------------------------- the selector
\* A scan that also takes collapsed cells (1 <= n in place of 1 < n).
RECURSIVE ScanEntropyFromOne(_, _, _)
ScanEntropyFromOne(g, i, acc) ==
    IF i >= Width(g) * Height(g) THEN acc
    ELSE LET x == i % Width(g)
             y == i \div Width(g)
             n == Cardinality(g[y][x])
         IN  IF 1 <= n /\ n < acc.min
             THEN ScanEntropyFromOne(g, i + 1, [min |-> n, cands |-> <<<<x, y>>>>])
             ELSE IF n = acc.min
             THEN ScanEntropyFromOne(g, i + 1, [acc EXCEPT !.cands = Append(@, <<x, y>>)])
             ELSE ScanEntropyFromOne(g, i + 1, acc)

\* A scan in which a later cell of the same size replaces the candidates
\* (<= in place of <).
RECURSIVE ScanEntropyLastWins(_, _, _)
ScanEntropyLastWins(g, i, acc) ==
    IF i >= Width(g) * Height(g) THEN acc
    ELSE LET x == i % Width(g)
             y == i \div Width(g)
             n == Cardinality(g[y][x])
         IN  IF 1 < n /\ n <= acc.min
             THEN ScanEntropyLastWins(g, i + 1, [min |-> n, cands |-> <<<<x, y>>>>])
             ELSE ScanEntropyLastWins(g, i + 1, acc)

\* The scan of find_lowest_entropy_cell, cell i of the row-major order
\* onwards: acc = [min |-> min_entropy, cands |-> candidates].
RECURSIVE ScanEntropy(_, _, _)
ScanEntropy(g, i, acc) ==
    IF i >= Width(g) * Height(g) THEN acc
    ELSE LET x == i % Width(g)
             y == i \div Width(g)
             n == Cardinality(g[y][x])
         IN  IF 1 < n /\ n < acc.min
             THEN ScanEntropy(g, i + 1, [min |-> n, cands |-> <<<<x, y>>>>])
             ELSE IF n = acc.min
             THEN ScanEntropy(g, i + 1, [acc EXCEPT !.cands = Append(@, <<x, y>>)])
             ELSE ScanEntropy(g, i + 1, acc)

\* A scan that starts from min_entropy = 1 in place of float("inf").
CandidatesMinOne(g) == ScanEntropy(g, 0, [min |-> 1, cands |-> <<>>]).cands

Candidates(g) == ScanEntropy(g, 0, [min |-> Infinity, cands |-> <<>>]).cands

\* A selector whose deterministic mode picks among the candidates as the
\* stochastic mode does.
FindLowestEntropyCellAnyCandidate(g, deterministic) ==
    LET candidates == Candidates(g)
    IN  IF candidates = <<>> THEN {NoneCell}
        ELSE {candidates[i] : i \in 1..Len(candidates)}

\* find_lowest_entropy_cell(grid, deterministic): the values it may return.
\* random.choice may return any candidate.
FindLowestEntropyCell(g, deterministic) ==
    LET candidates == Candidates(g)
    IN  IF candidates = <<>> THEN {NoneCell}
        ELSE IF deterministic THEN {candidates[1]}
        ELSE {candidates[i] : i \in 1..Len(candidates)}

\* --------------------------------------------------------- the collapser
\* action_probs[idx] if idx is not None and 0 <= idx < len(action_probs) else 0.0
Prob(action_probs, tile) ==
    LET idx == TileToIndex(tile)
    IN  IF 0 <= idx /\ idx < Len(action_probs) THEN action_probs[idx + 1] ELSE 0

\* A scan in which a later tile of equal weight replaces the best one
\* (prob >= max_prob in place of prob > max_prob).
RECURSIVE DetScanLastWins(_, _, _, _)
DetScanLastWins(possible_tiles, action_probs, i, acc) ==
    IF i > Len(tile_symbols) THEN acc
    ELSE LET tile == tile_symbols[i]
         IN  IF tile \in possible_tiles /\ Prob(action_probs, tile) >= acc.max
             THEN DetScanLastWins(possible_tiles, action_probs, i + 1,
                                  [best |-> tile, max |-> Prob(action_probs, tile)])
             ELSE DetScanLastWins(possible_tiles, action_probs, i + 1, acc)

\* The deterministic scan of collapse_cell over tile_symbols, entry i onwards:
\* acc = [best |-> best_tile, max |-> max_prob].
RECURSIVE DetScan(_, _, _, _)
DetScan(possible_tiles, action_probs, i, acc) ==
    IF i > Len(tile_symbols) THEN acc
    ELSE LET tile == tile_symbols[i]
         IN  IF tile \in possible_tiles /\ Prob(action_probs, tile) > acc.max
             THEN DetScan(possible_tiles, action_probs, i + 1,
                          [best |-> tile, max |-> Prob(action_probs, tile)])
             ELSE DetScan(possible_tiles, action_probs, i + 1, acc)

Max0(w) == IF w > 0 THEN w ELSE 0

\* valid_tiles of the stochastic path: the tiles with max(0, w) > 1e-9.
ValidTiles(possible_tiles, action_probs) ==
    {t \in possible_tiles : Max0(Prob(action_probs, t)) > Eps}

RECURSIVE TotalWeight(_, _)
TotalWeight(tiles, action_probs) ==
    IF tiles = {} THEN 0
    ELSE LET t == CHOOSE u \in tiles : TRUE
         IN  Max0(Prob(action_probs, t)) + TotalWeight(tiles \ {t}, action_probs)

\* A collapser that weighs the whole catalog, not the cell's domain.
ChosenTilesOfCatalog(possible_tiles, action_probs, deterministic) ==
    IF possible_tiles = {} THEN {NoneTile}
    ELSE IF deterministic
    THEN LET r == DetScan(TileSet, action_probs, 1,
                          [best |-> NoneTile, max |-> NegInfinity])
         IN  IF r.best # NoneTile /\ r.max > 0 THEN {r.best} ELSE {NoneTile}
    ELSE LET valid_tiles == ValidTiles(TileSet, action_probs)
         IN  IF TotalWeight(valid_tiles, action_probs) > Eps
             THEN valid_tiles
             ELSE possible_tiles

\* A collapser whose deterministic mode falls back to the first possible tile
\* of the catalog when no weight is positive, as the source's comment at the
\* test of max_prob says.
ChosenTilesFirstPossible(possible_tiles, action_probs, deterministic) ==
    IF possible_tiles = {} THEN {NoneTile}
    ELSE IF deterministic
    THEN LET r == DetScan(possible_tiles, action_probs, 1,
                          [best |-> NoneTile, max |-> NegInfinity])
         IN  IF r.best # NoneTile /\ r.max > 0 THEN {r.best}
             ELSE {tile_symbols[CHOOSE i \in 1..Len(tile_symbols) :
                        /\ tile_symbols[i] \in possible_tiles
                        /\ \A j \in 1..(i - 1) : tile_symbols[j] \notin possible_tiles]}
    ELSE LET valid_tiles == ValidTiles(possible_tiles, action_probs)
         IN  IF TotalWeight(valid_tiles, action_probs) > Eps
             THEN valid_tiles
             ELSE possible_tiles

\* A collapser whose stochastic mode has no uniform fallback.
ChosenTilesNoFallback(possible_tiles, action_probs, deterministic) ==
    IF possible_tiles = {} THEN {NoneTile}
    ELSE IF deterministic
    THEN LET r == DetScan(possible_tiles, action_probs, 1,
                          [best |-> NoneTile, max |-> NegInfinity])
         IN  IF r.best # NoneTile /\ r.max > 0 THEN {r.best} ELSE {NoneTile}
    ELSE LET valid_tiles == ValidTiles(possible_tiles, action_probs)
         IN  IF TotalWeight(valid_tiles, action_probs) > Eps
             THEN valid_tiles
             ELSE {NoneTile}

\* A collapser whose stochastic mode draws among all tiles of the domain,
\* whatever their weights.
ChosenTilesAnyPossible(possible_tiles, action_probs, deterministic) ==
    IF possible_tiles = {} THEN {NoneTile}
    ELSE IF deterministic
    THEN LET r == DetScan(possible_tiles, action_probs, 1,
                          [best |-> NoneTile, max |-> NegInfinity])
         IN  IF r.best # NoneTile /\ r.max > 0 THEN {r.best} ELSE {NoneTile}
    ELSE possible_tiles

\* The tiles collapse_cell may choose; {NoneTile} when it returns None
\* without collapsing.
ChosenTiles(possible_tiles, action_probs, deterministic) ==
    IF possible_tiles = {} THEN {NoneTile}
    ELSE IF deterministic
    THEN LET r == DetScan(possible_tiles, action_probs, 1,
                          [best |-> NoneTile, max |-> NegInfinity])
         IN  IF r.best # NoneTile /\ r.max > 0 THEN {r.best} ELSE {NoneTile}
    ELSE LET valid_tiles == ValidTiles(possible_tiles, action_probs)
         IN  IF TotalWeight(valid_tiles, action_probs) > Eps
             THEN valid_tiles
             ELSE possible_tiles

\* A collapser that returns the chosen tile and leaves the cell as it was.
CollapseCellNoWrite(g, x, y, action_probs, deterministic) ==
    {[grid |-> g, ret |-> t] :
        t \in ChosenTiles(g[y][x], action_probs, deterministic)}

\* collapse_cell(grid, tile_symbols, tile_to_index, x, y, action_probs,
\* deterministic): the outcomes [grid, ret] it may produce.
CollapseCell(g, x, y, action_probs, deterministic) ==
    {[grid |-> IF t = NoneTile THEN g ELSE [g EXCEPT ![y][x] = {t}], ret |-> t] :
        t \in ChosenTiles(g[y][x], action_probs, deterministic)}

\* -------------------------------------------------------- the propagator
\* The offsets of dir_idx 0..3.
Offsets == <<<<0, -1>>, <<0, 1>>, <<-1, 0>>, <<1, 0>>>>

\* A revision that removes nothing once the current cell is decided.
RemovedOptionsFromUndecided(current_possibilities, neighbor_possibilities, dir_idx) ==
    IF Cardinality(current_possibilities) < 2 THEN {}
    ELSE {nt \in neighbor_possibilities :
            ~ \E ct \in current_possibilities :
                adjacency_bool[TileToIndex(ct)][dir_idx][TileToIndex(nt)]}

\* removed_options: the neighbour's tiles that no tile of the current cell
\* allows in direction dir_idx.
RemovedOptions(current_possibilities, neighbor_possibilities, dir_idx) ==
    {nt \in neighbor_possibilities :
        ~ \E ct \in current_possibilities :
            adjacency_bool[TileToIndex(ct)][dir_idx][TileToIndex(nt)]}

\* A membership test that never finds the coordinate: every shrunk neighbour
\* is appended.
InStackNever(stack, c) == FALSE

InStack(stack, c) == \E i \in 1..Len(stack) : stack[i] = c

\* A direction loop that records the contradiction and goes on to the next
\* direction in place of returning.
RECURSIVE PropDirsGoOn(_, _, _, _, _)
PropDirsGoOn(st, curr_x, curr_y, current_possibilities, dir_idx) ==
    IF dir_idx > 3 THEN st
    ELSE
    LET nx == curr_x + Offsets[dir_idx + 1][1]
        ny == curr_y + Offsets[dir_idx + 1][2]
    IN  IF ~(0 <= nx /\ nx < Width(st.grid) /\ 0 <= ny /\ ny < Height(st.grid))
        THEN PropDirsGoOn(st, curr_x, curr_y, current_possibilities, dir_idx + 1)
        ELSE
        LET original == st.grid[ny][nx]
            removed == RemovedOptions(current_possibilities, original, dir_idx)
            new == original \ removed
        IN  IF original = {} \/ removed = {}
            THEN PropDirsGoOn(st, curr_x, curr_y, current_possibilities, dir_idx + 1)
            ELSE IF new = {}
            THEN PropDirsGoOn([st EXCEPT !.grid[ny][nx] = {},
                                        !.ok = FALSE,
                                        !.writes = Append(@, [cell |-> <<nx, ny>>, dom |-> {}])],
                              curr_x, curr_y, current_possibilities, dir_idx + 1)
            ELSE PropDirsGoOn([st EXCEPT !.grid[ny][nx] = new,
                                        !.writes = Append(@, [cell |-> <<nx, ny>>, dom |-> new]),
                                        !.stack = IF InStack(@, <<nx, ny>>) THEN @
                                                  ELSE Append(@, <<nx, ny>>),
                                        !.pushes = IF InStack(st.stack, <<nx, ny>>) THEN @
                                                   ELSE @ + 1],
                              curr_x, curr_y, current_possibilities, dir_idx + 1)

\* A direction loop that pushes every neighbour it has not yet popped,
\* whether or not the neighbour's domain changed.
RECURSIVE PropDirsPushAll(_, _, _, _, _)
PropDirsPushAll(st, curr_x, curr_y, current_possibilities, dir_idx) ==
    IF dir_idx > 3 THEN st
    ELSE
    LET nx == curr_x + Offsets[dir_idx + 1][1]
        ny == curr_y + Offsets[dir_idx + 1][2]
    IN  IF ~(0 <= nx /\ nx < Width(st.grid) /\ 0 <= ny /\ ny < Height(st.grid))
        THEN PropDirsPushAll(st, curr_x, curr_y, current_possibilities, dir_idx + 1)
        ELSE
        LET original == st.grid[ny][nx]
            removed == RemovedOptions(current_possibilities, original, dir_idx)
            new == original \ removed
            seen == InStack(st.stack, <<nx, ny>>) \/ InStack(st.pops, <<nx, ny>>)
        IN  IF original = {}
            THEN PropDirsPushAll(st, curr_x, curr_y, current_possibilities, dir_idx + 1)
            ELSE IF new = {}
            THEN [st EXCEPT !.grid[ny][nx] = {},
                            !.ok = FALSE,
                            !.writes = Append(@, [cell |-> <<nx, ny>>, dom |-> {}])]
            ELSE PropDirsPushAll(
                    [st EXCEPT !.grid[ny][nx] = new,
                               !.writes = IF removed = {} THEN @
                                          ELSE Append(@, [cell |-> <<nx, ny>>, dom |-> new]),
                               !.stack = IF seen THEN @ ELSE Append(@, <<nx, ny>>),
                               !.pushes = IF seen THEN @ ELSE @ + 1],
                    curr_x, curr_y, current_possibilities, dir_idx + 1)

\* The direction loop of one popped cell, from dir_idx on.
\* st = [grid, stack, ok, writes, pushes, pops]; ok = FALSE is "return False".
RECURSIVE PropDirs(_, _, _, _, _)
PropDirs(st, curr_x, curr_y, current_possibilities, dir_idx) ==
    IF dir_idx > 3 THEN st
    ELSE
    LET nx == curr_x + Offsets[dir_idx + 1][1]
        ny == curr_y + Offsets[dir_idx + 1][2]
    IN  IF ~(0 <= nx /\ nx < Width(st.grid) /\ 0 <= ny /\ ny < Height(st.grid))
        THEN PropDirs(st, curr_x, curr_y, current_possibilities, dir_idx + 1)
        ELSE
        LET original == st.grid[ny][nx]
            removed == RemovedOptions(current_possibilities, original, dir_idx)
            new == original \ removed
        IN  IF original = {} \/ removed = {}
            THEN PropDirs(st, curr_x, curr_y, current_possibilities, dir_idx + 1)
            ELSE IF new = {}
            THEN [st EXCEPT !.grid[ny][nx] = {},
                            !.ok = FALSE,
                            !.writes = Append(@, [cell |-> <<nx, ny>>, dom |-> {}])]
            ELSE IF Cardinality(new) < Cardinality(original)
            THEN PropDirs([st EXCEPT !.grid[ny][nx] = new,
                                     !.writes = Append(@, [cell |-> <<nx, ny>>, dom |-> new]),
                                     !.stack = IF InStack(@, <<nx, ny>>) THEN @
                                               ELSE Append(@, <<nx, ny>>),
                                     !.pushes = IF InStack(st.stack, <<nx, ny>>) THEN @
                                                ELSE @ + 1],
                          curr_x, curr_y, current_possibilities, dir_idx + 1)
            ELSE PropDirs(st, curr_x, curr_y, current_possibilities, dir_idx + 1)

\* The while loop of propagate_constraints: stack.pop() takes the last entry.
RECURSIVE PropLoop(_)
PropLoop(st) ==
    IF st.stack = <<>> THEN st
    ELSE
    LET curr == st.stack[Len(st.stack)]
        popped == [st EXCEPT !.stack = SubSeq(@, 1, Len(@) - 1),
                             !.pops = Append(@, curr)]
    IN  IF st.grid[curr[2]][curr[1]] = {}
        THEN PropLoop(popped)
        ELSE LET r == PropDirs(popped, curr[1], curr[2],
                               st.grid[curr[2]][curr[1]], 0)
             IN  IF r.ok THEN PropLoop(r) ELSE r

\* A propagator that returns True at once and revises no neighbour.
PropagateConstraintsIdle(g, start_x, start_y) ==
    [grid |-> g, stack |-> <<>>, ok |-> TRUE, writes |-> <<>>, pushes |-> 0,
     pops |-> <<<<start_x, start_y>>>>]

\* propagate_constraints(grid, adjacency_bool, tile_to_index, start_x, start_y):
\* ok is the returned bool, grid the grid it leaves, stack the worklist when it
\* returns, writes the assignments grid[ny][nx] = ... in order, pushes the
\* number of stack.append calls, pops the cells popped in order.
PropagateConstraints(g, start_x, start_y) ==
    PropLoop([grid |-> g, stack |-> <<<<start_x, start_y>>>>, ok |-> TRUE,
              writes |-> <<>>, pushes |-> 0, pops |-> <<>>])

\* The record of a call in which propagate_constraints did not run.
NoProp(g) ==
    [grid |-> g, stack |-> <<>>, ok |-> TRUE, writes |-> <<>>, pushes |-> 0,
     pops |-> <<>>]

\* --------------------------------------------------- the step controller
\* A whole-grid scan without the test for an empty domain.
ClassifyNoEmptyTest(g) ==
    IF \A c \in CellsOf(g) : Cardinality(g[c[2]][c[1]]) <= 1
    THEN [terminated |-> TRUE, truncated |-> FALSE]
    ELSE [terminated |-> FALSE, truncated |-> TRUE]

\* A whole-grid scan that sets the two flags independently of each other.
ClassifyIndependentFlags(g) ==
    [terminated |-> \A c \in CellsOf(g) : Cardinality(g[c[2]][c[1]]) <= 1,
     truncated |-> \E c \in CellsOf(g) : g[c[2]][c[1]] = {}]

\* The whole-grid scan of biome_wfc_step after the selector returned None.
Classify(g) ==
    IF \E c \in CellsOf(g) : g[c[2]][c[1]] = {}
    THEN [terminated |-> FALSE, truncated |-> TRUE]
    ELSE IF \A c \in CellsOf(g) : Cardinality(g[c[2]][c[1]]) <= 1
    THEN [terminated |-> TRUE, truncated |-> FALSE]
    ELSE [terminated |-> FALSE, truncated |-> TRUE]

\* What one call reports: the grid it leaves, its return flags, and what it
\* did on the way (the selected cell, the tile collapse_cell returned, whether
\* propagate_constraints ran and what it returned).
Outcome(g, flags, sel, chosen, ran, prop) ==
    [grid |-> g, terminated |-> flags.terminated, truncated |-> flags.truncated,
     sel |-> sel, chosen |-> chosen, propagated |-> ran, prop |-> prop]

Truncated == [terminated |-> FALSE, truncated |-> TRUE]
Running == [terminated |-> FALSE, truncated |-> FALSE]

\* A controller that runs the propagation from the selected cell whether or
\* not collapse_cell collapsed it.
AfterCollapseAlwaysPropagates(g, sel, co, deterministic) ==
    LET prop == PropagateConstraints(co.grid, sel[1], sel[2])
    IN  IF ~prop.ok \/ co.ret = NoneTile
        THEN Outcome(prop.grid, Truncated, sel, co.ret, TRUE, prop)
        ELSE IF FindLowestEntropyCell(prop.grid, deterministic) = {NoneCell}
        THEN Outcome(prop.grid, Classify(prop.grid), sel, co.ret, TRUE, prop)
        ELSE Outcome(prop.grid, Running, sel, co.ret, TRUE, prop)

\* Steps 2 to 4 of biome_wfc_step, once the selector returned the cell sel
\* and collapse_cell the outcome co.
AfterCollapse(g, sel, co, deterministic) ==
    IF co.ret = NoneTile
    THEN Outcome(co.grid, Truncated, sel, NoneTile, FALSE, NoProp(co.grid))
    ELSE LET prop == PropagateConstraints(co.grid, sel[1], sel[2])
         IN  IF ~prop.ok
             THEN Outcome(prop.grid, Truncated, sel, co.ret, TRUE, prop)
             ELSE IF FindLowestEntropyCell(prop.grid, deterministic) = {NoneCell}
             THEN Outcome(prop.grid, Classify(prop.grid), sel, co.ret, TRUE, prop)
             ELSE Outcome(prop.grid, Running, sel, co.ret, TRUE, prop)

\* A controller that reports Truncated whenever the selector finds no cell
\* at the start of the call.
BiomeWfcStepEntryTruncates(g, action_probs, deterministic) ==
    UNION {IF sel = NoneCell
           THEN {Outcome(g, Truncated, NoneCell, NoneTile, FALSE, NoProp(g))}
           ELSE {AfterCollapse(g, sel, co, deterministic) :
                    co \in CollapseCell(g, sel[1], sel[2], action_probs, deterministic)} :
           sel \in FindLowestEntropyCell(g, deterministic)}

\* biome_wfc_step(grid, adjacency_bool, tile_symbols, tile_to_index,
\* action_probs, deterministic): the outcomes it may produce.
BiomeWfcStep(g, action_probs, deterministic) ==
    UNION {IF sel = NoneCell
           THEN {Outcome(g, Classify(g), NoneCell, NoneTile, FALSE, NoProp(g))}
           ELSE {AfterCollapse(g, sel, co, deterministic) :
                    co \in CollapseCell(g, sel[1], sel[2], action_probs, deterministic)} :
           sel \in FindLowestEntropyCell(g, deterministic)}

\* ------------------------------------------------------------- the inputs
\* Adjacency matrices are given as one relation per direction over tile
\* indices; a pair names the relations of the two directions of one axis.
Rel(kind, i, j) ==
    CASE kind = "eq" -> i = j
      [] kind = "neq" -> i # j
      [] kind = "all" -> TRUE
      [] kind = "none" -> FALSE
      [] kind = "lt" -> i < j
      [] kind = "gt" -> i > j
      [] kind = "from" -> i >= 1
      [] kind = "to" -> j >= 1

\* <<forward, backward>>: the relation of Down (or Right) and of Up (or Left).
\* In the first four the backward relation is the converse of the forward
\* one, as facing edge labels give; with "from"/"to" the first tile allows
\* nothing after it. The last two are not symmetric across opposite
\* directions.
AxisKinds ==
    {<<"eq", "eq">>, <<"all", "all">>, <<"lt", "gt">>, <<"from", "to">>,
     <<"all", "none">>, <<"neq", "eq">>}

\* adjacency_bool[i][d][j] with d = 0:U, 1:D, 2:L, 3:R, for n tiles.
AdjacencyOf(horizontal, vertical, n) ==
    LET kinds == <<vertical[2], vertical[1], horizontal[2], horizontal[1]>>
    IN  [i \in 0..(n - 1) |->
            [d \in 0..3 |-> [j \in 0..(n - 1) |-> Rel(kinds[d + 1], i, j)]]]

\* The weight vectors a driver may pass: one weight per tile index, possibly
\* shorter than the catalog.
ActionProbs ==
    UNION {[1..k -> WeightVals] : k \in 0..Len(tile_symbols)}

Shapes ==
    {wh \in (1..MaxW) \X (1..MaxH) : wh[1] * wh[2] <= MaxCells}

\* --------------------------------------------------------------- the state
\* last: the call that has just returned, with its arguments and what it
\* returned (raised: it ended in an exception; shown: the cell of the
\* observation the driver held when it made the call); op = "none" between
\* calls.
Fresh(g) ==
    [op |-> "none", action_probs |-> <<>>, deterministic |-> FALSE, pre |-> g,
     at |-> NoneCell, sel |-> NoneCell, chosen |-> NoneTile,
     propagated |-> FALSE, prop |-> NoProp(g),
     terminated |-> FALSE, truncated |-> FALSE, raised |-> FALSE,
     shown |-> NoneCell]

\* The second run: its grid and what its last call returned.
Twin(g, terminated, truncated) ==
    [grid |-> g, terminated |-> terminated, truncated |-> truncated]

\* The driver builds the catalog and the adjacency matrix once. A grid of one
\* row (one column) never reads the vertical (horizontal) relations, which are
\* then fixed; otherwise the two axes have the same relations or one of them
\* has "eq".
InitCatalog(width, height) ==
    \E n \in 1..MaxTiles, h \in AxisKinds, v \in AxisKinds :
        /\ n * width * height <= MaxEntries
        /\ width = 1 => h = <<"eq", "eq">>
        /\ height = 1 => v = <<"eq", "eq">>
        /\ h = v \/ h = <<"eq", "eq">> \/ v = <<"eq", "eq">>
        /\ tile_symbols = SubSeq(Catalog, 1, n)
        /\ adjacency_bool = AdjacencyOf(h, v, n)

\* The driver creates the grid with initialize_wfc_grid.
Init ==
    \E wh \in Shapes :
        /\ InitCatalog(wh[1], wh[2])
        /\ grid = InitializeWfcGrid(wh[1], wh[2], tile_symbols)
        /\ last = Fresh(grid)
        /\ streak = 0
        /\ stopped = FALSE
        /\ decided = {}
        /\ twin = Twin(grid, FALSE, FALSE)
        /\ NothingAside

\* One call of biome_wfc_step by the driver.
Step ==
    /\ last.op = "none"
    /\ \E action_probs \in ActionProbs, deterministic \in BOOLEAN :
        \E out \in BiomeWfcStep(grid, action_probs, deterministic) :
            /\ grid' = out.grid
            /\ last' = [op |-> "step", action_probs |-> action_probs,
                        deterministic |-> deterministic, pre |-> grid,
                        at |-> NoneCell, sel |-> out.sel, chosen |-> out.chosen,
                        propagated |-> out.propagated, prop |-> out.prop,
                        terminated |-> out.terminated, truncated |-> out.truncated,
                        raised |-> FALSE, shown |-> NoneCell]
            /\ streak' = IF out.terminated \/ out.truncated THEN 0 ELSE streak + 1
            /\ stopped' = (stopped \/ out.terminated \/ out.truncated)
            /\ decided' = decided \cup DecidedCells(out.grid)
            /\ UNCHANGED <<aside, tile_symbols, adjacency_bool, twin>>

\* The driver has read what the call returned; the call's arguments and
\* results are gone, the grid stays.
Return ==
    /\ last.op # "none"
    /\ last' = Fresh(grid)
    /\ UNCHANGED <<aside, tile_symbols, adjacency_bool, grid, streak, stopped, decided, twin>>

\* The driver starts a new episode: initialize_wfc_grid again, same catalog.
Reset ==
    /\ last.op = "none"
    /\ grid' = InitializeWfcGrid(Width(grid), Height(grid), tile_symbols)
    /\ last' = Fresh(grid')
    /\ streak' = 0
    /\ stopped' = FALSE
    /\ decided' = {}
    /\ UNCHANGED <<aside, tile_symbols, adjacency_bool, twin>>

Next == Step \/ Return \/ Reset

Spec == Init /\ [][Next]_vars

\* One grid stepped again and again, never re-initialized.
NextEpisode == Step \/ Return

SpecEpisode == Init /\ [][NextEpisode]_vars

\* ------------------------------------------------ the functions called alone
\* The functions of src/core/wfc.py are public: a caller may hand them any
\* grid of domains, not only one that biome_wfc_step has produced.
AllGrids(width, height, tiles) ==
    [0..(height - 1) -> [0..(width - 1) -> SUBSET tiles]]

InitApi ==
    \E wh \in Shapes :
        /\ InitCatalog(wh[1], wh[2])
        /\ grid \in AllGrids(wh[1], wh[2], {tile_symbols[i] : i \in 1..Len(tile_symbols)})
        /\ last = Fresh(grid)
        /\ streak = 0
        /\ stopped = FALSE
        /\ decided = {}
        /\ twin = Twin(grid, FALSE, FALSE)
        /\ NothingAside

\* collapse_cell called alone on the cell (x, y).
Collapse ==
    /\ last.op = "none"
    /\ \E c \in CellsOf(grid), action_probs \in ActionProbs, deterministic \in BOOLEAN :
        \E co \in CollapseCell(grid, c[1], c[2], action_probs, deterministic) :
            /\ grid' = co.grid
            /\ last' = [Fresh(grid) EXCEPT !.op = "collapse",
                                           !.action_probs = action_probs,
                                           !.deterministic = deterministic,
                                           !.at = c,
                                           !.chosen = co.ret,
                                           !.prop = NoProp(co.grid)]
            /\ UNCHANGED <<aside, tile_symbols, adjacency_bool, streak, stopped, decided, twin>>

\* propagate_constraints called alone from the cell (start_x, start_y).
Propagate ==
    /\ last.op = "none"
    /\ \E c \in CellsOf(grid) :
        \E prop \in {PropagateConstraints(grid, c[1], c[2])} :
            /\ grid' = prop.grid
            /\ last' = [Fresh(grid) EXCEPT !.op = "propagate",
                                           !.at = c,
                                           !.propagated = TRUE,
                                           !.prop = prop]
            /\ UNCHANGED <<aside, tile_symbols, adjacency_bool, streak, stopped, decided, twin>>

\* find_lowest_entropy_cell called alone.
Select ==
    /\ last.op = "none"
    /\ \E deterministic \in BOOLEAN :
        \E sel \in FindLowestEntropyCell(grid, deterministic) :
            /\ last' = [Fresh(grid) EXCEPT !.op = "select",
                                           !.deterministic = deterministic,
                                           !.sel = sel]
            /\ UNCHANGED <<aside, tile_symbols, adjacency_bool, grid, streak, stopped, decided, twin>>

\* One call on any grid: every grid is an initial state.
NextApi == Step \/ Collapse \/ Propagate \/ Select

SpecApi == InitApi /\ [][NextApi]_vars

\* ------------------------------------------------- two runs, the same calls
\* Two runs start from equal grids and receive the same deterministic-mode
\* calls; each resolves on its own whatever the call leaves open.
StepBoth ==
    /\ last.op = "none"
    /\ \E action_probs \in ActionProbs :
        \E out \in BiomeWfcStep(grid, action_probs, TRUE),
           out2 \in BiomeWfcStep(twin.grid, action_probs, TRUE) :
            /\ grid' = out.grid
            /\ twin' = Twin(out2.grid, out2.terminated, out2.truncated)
            /\ last' = [op |-> "step", action_probs |-> action_probs,
                        deterministic |-> TRUE, pre |-> grid,
                        at |-> NoneCell, sel |-> out.sel, chosen |-> out.chosen,
                        propagated |-> out.propagated, prop |-> out.prop,
                        terminated |-> out.terminated, truncated |-> out.truncated,
                        raised |-> FALSE, shown |-> NoneCell]
            /\ streak' = IF out.terminated \/ out.truncated THEN 0 ELSE streak + 1
            /\ stopped' = (stopped \/ out.terminated \/ out.truncated)
            /\ decided' = decided \cup DecidedCells(out.grid)
            /\ UNCHANGED <<aside, tile_symbols, adjacency_bool>>

NextPair == StepBoth \/ Return

SpecPair == Init /\ [][NextPair]_vars

\* --------------------------------------------- calls with any coordinates
\* A Python list of n entries takes the indices -n .. n - 1, a negative one
\* counted from the end; any other index raises IndexError.
InPyRange(n, i) == -n <= i /\ i < n
PyIndex(n, i) == IF i < 0 THEN n + i ELSE i

\* collapse_cell with coordinates that are not checked: grid[y][x] is read and
\* written with Python's indexing.
CollapseCellAt(g, x, y, action_probs, deterministic) ==
    IF ~(InPyRange(Height(g), y) /\ InPyRange(Width(g), x))
    THEN {[grid |-> g, ret |-> NoneTile, raised |-> TRUE]}
    ELSE {[grid |-> co.grid, ret |-> co.ret, raised |-> FALSE] :
            co \in CollapseCell(g, PyIndex(Width(g), x), PyIndex(Height(g), y),
                                action_probs, deterministic)}

\* propagate_constraints with start coordinates that are not checked: the
\* popped start cell is read with Python's indexing, its neighbours are
\* computed from the coordinates as given and bounds-checked.
PropagateConstraintsFrom(g, start_x, start_y) ==
    IF ~(InPyRange(Height(g), start_y) /\ InPyRange(Width(g), start_x))
    THEN [NoProp(g) EXCEPT !.ok = FALSE] @@ [raised |-> TRUE]
    ELSE LET current_possibilities ==
                 g[PyIndex(Height(g), start_y)][PyIndex(Width(g), start_x)]
             popped == [NoProp(g) EXCEPT !.pops = <<<<start_x, start_y>>>>]
             r == IF current_possibilities = {} THEN popped
                  ELSE PropDirs(popped, start_x, start_y, current_possibilities, 0)
         IN  (IF r.ok THEN PropLoop(r) ELSE r) @@ [raised |-> FALSE]

\* The coordinates a caller may pass: inside the grid, one past it, and
\* negative ones.
Coordinates(g) == (-2 .. Width(g)) \X (-2 .. Height(g))

\* Weight vectors of every length up to the catalog's whose entries are all
\* eligible.
EligibleProbs == {p \in ActionProbs : \A i \in DOMAIN p : p[i] > Eps}

\* collapse_cell called alone with any coordinates.
CollapseAt ==
    /\ last.op = "none"
    /\ \E c \in Coordinates(grid), action_probs \in EligibleProbs, deterministic \in BOOLEAN :
        \E co \in CollapseCellAt(grid, c[1], c[2], action_probs, deterministic) :
            /\ grid' = co.grid
            /\ last' = [Fresh(grid) EXCEPT !.op = "collapse_at",
                                           !.action_probs = action_probs,
                                           !.deterministic = deterministic,
                                           !.at = c,
                                           !.chosen = co.ret,
                                           !.prop = NoProp(co.grid),
                                           !.raised = co.raised]
            /\ UNCHANGED <<aside, tile_symbols, adjacency_bool, streak, stopped, decided, twin>>

\* propagate_constraints called alone with any start coordinates.
PropagateFrom ==
    /\ last.op = "none"
    /\ \E c \in Coordinates(grid) :
        \E r \in {PropagateConstraintsFrom(grid, c[1], c[2])} :
            /\ grid' = r.grid
            /\ last' = [Fresh(grid) EXCEPT !.op = "propagate_from",
                                           !.at = c,
                                           !.propagated = ~r.raised,
                                           !.prop = [f \in DOMAIN NoProp(grid) |-> r[f]],
                                           !.raised = r.raised]
            /\ UNCHANGED <<aside, tile_symbols, adjacency_bool, streak, stopped, decided, twin>>

NextCaller == CollapseAt \/ PropagateFrom

SpecCaller == InitApi /\ [][NextCaller]_vars

\* -------------------------------------------------------------- the driver
\* DIRECTIONS and OPPOSITE_DIRECTION of the driver.
DIRECTIONS == <<"U", "R", "D", "L">>
OPPOSITE_DIRECTION == [U |-> "D", D |-> "U", L |-> "R", R |-> "L"]

\* The edge labels of the driver's tiles.
EdgeLabels == {"OPEN", "LINE"}

\* The "edges" dictionaries a declaration may hold: a label for every
\* direction, or for all but up to `missing` of them.
EdgeDicts(missing) ==
    UNION {[keys -> EdgeLabels] :
            keys \in {k \in SUBSET {"U", "R", "D", "L"} : Cardinality(k) >= 4 - missing}}

\* A declaration without an "edges" entry.
NoEdges == [image |-> "none"]

\* The declarations: PAC_TILES as the sequence of its values, in key order;
\* at most one tile lacks labels.
Declarations(missing) ==
    UNION {{t \in [1..n -> {[edges |-> e] : e \in EdgeDicts(missing)}
                            \cup (IF missing > 0 THEN {NoEdges} ELSE {})] :
                \A i \in 1..n, j \in 1..n :
                    (i # j /\ t[i] \notin {[edges |-> e] : e \in EdgeDicts(0)}) =>
                        t[j] \in {[edges |-> e] : e \in EdgeDicts(0)}} :
            n \in 1..MaxDeclared}

\* A construction that compares the labels of the same side of both tiles.
BuildAdjacencySameSide(tiles) ==
    [i \in 0..(Len(tiles) - 1) |->
        [d \in 0..3 |->
            [j \in 0..(Len(tiles) - 1) |->
                LET tile_a == tiles[i + 1]
                    tile_b == tiles[j + 1]
                    direction == DIRECTIONS[d + 1]
                IN  IF /\ "edges" \in DOMAIN tile_a
                       /\ direction \in DOMAIN tile_a.edges
                       /\ "edges" \in DOMAIN tile_b
                       /\ direction \in DOMAIN tile_b.edges
                    THEN tile_a.edges[direction] = tile_b.edges[direction]
                    ELSE FALSE]]]

\* adjacency_bool as the driver's loops fill it: slice d is DIRECTIONS[d].
BuildAdjacency(tiles) ==
    [i \in 0..(Len(tiles) - 1) |->
        [d \in 0..3 |->
            [j \in 0..(Len(tiles) - 1) |->
                LET tile_a == tiles[i + 1]
                    tile_b == tiles[j + 1]
                    direction == DIRECTIONS[d + 1]
                IN  IF /\ "edges" \in DOMAIN tile_a
                       /\ direction \in DOMAIN tile_a.edges
                       /\ "edges" \in DOMAIN tile_b
                       /\ OPPOSITE_DIRECTION[direction] \in DOMAIN tile_b.edges
                    THEN tile_a.edges[direction]
                            = tile_b.edges[OPPOSITE_DIRECTION[direction]]
                    ELSE FALSE]]]

\* The driver has its declarations and has built nothing yet.
InitDeclared(missing) ==
    /\ TILES \in Declarations(missing)
    /\ tile_symbols = Absent
    /\ adjacency_bool = Absent
    /\ grid = Absent
    /\ last = Fresh(Absent)
    /\ streak = 0
    /\ stopped = FALSE
    /\ decided = {}
    /\ twin = Absent
    /\ env = Absent
    /\ rng = Absent
    /\ solo = Absent
    /\ mem = Absent

\* The driver lists the tiles and fills the adjacency matrix.
Build ==
    /\ last.op = "none"
    /\ TILES # Absent /\ adjacency_bool = Absent
    /\ tile_symbols' = SubSeq(Catalog, 1, Len(TILES))
    /\ adjacency_bool' = BuildAdjacency(TILES)
    /\ last' = [Fresh(grid) EXCEPT !.op = "build"]
    /\ UNCHANGED <<grid, streak, stopped, decided, twin, TILES, env, rng, solo, mem>>

\* The construction alone, on declarations that may lack labels.
SpecBuild == InitDeclared(MaxMissing) /\ [][Build]_vars

\* ------------------------------------------------------------ the wrapper
\* The components of an action: the action space is Box(-1, 1).
Logits == {-1, 1}

\* The softmax of WFCWrapper.step, in the unit of the weights: every entry is
\* well above the threshold of collapse_cell, and a larger logit gives a
\* larger weight.
Softmax(action) ==
    [i \in DOMAIN action |-> Eps + 2 + action[i]]

\* A number of the observation, as <<numerator, denominator>>.
Frac(a, b) == <<a, b>>

\* grid_to_array: one number per cell, read as grid[y][x] for y below
\* map_length and x below map_width.
GridToArray(g, num_tiles, map_length, map_width) ==
    [k \in 1..(map_length * map_width) |->
        LET y == (k - 1) \div map_width
            x == (k - 1) % map_width
            cell == g[y][x]
        IN  IF Cardinality(cell) = 1
            THEN IF num_tiles > 1
                 THEN Frac(TileToIndex(CHOOSE t \in cell : TRUE), num_tiles - 1)
                 ELSE Frac(0, 1)
            ELSE Frac(-1, 1)]

\* WFCWrapper.get_observation: the observations it may return. The reads of
\* grid_to_array raise IndexError when the grid has fewer than map_length
\* rows or fewer than map_width columns.
GetObservation(g, e) ==
    IF e.map_length > Height(g) \/ e.map_width > Width(g)
    THEN {[raised |-> TRUE]}
    ELSE {[raised |-> FALSE,
           map_flat |-> GridToArray(g, e.num_tiles, e.map_length, e.map_width),
           pos_tuple |-> pos_tuple,
           pos_array |->
                IF pos_tuple = NoneCell
                THEN <<Frac(0, 1), Frac(0, 1)>>
                ELSE <<IF e.map_width > 1
                       THEN Frac(pos_tuple[1], e.map_width - 1) ELSE Frac(0, 1),
                       IF e.map_length > 1
                       THEN Frac(pos_tuple[2], e.map_length - 1) ELSE Frac(0, 1)>>] :
            pos_tuple \in FindLowestEntropyCell(g, FALSE)}

\* The driver's declarations are complete.
InitDriver == InitDeclared(0)

\* WFCWrapper.__init__: the grid is initialize_wfc_grid(map_length,
\* map_width, tiles). observation is what the driver last received.
Create ==
    /\ last.op = "none"
    /\ adjacency_bool # Absent /\ env = Absent
    /\ \E shape \in Shapes :
        /\ Len(tile_symbols) * shape[1] * shape[2] <= MaxEntries
        /\ grid' = InitializeWfcGrid(shape[1], shape[2], tile_symbols)
        /\ env' = [map_length |-> shape[1], map_width |-> shape[2],
                   num_tiles |-> Len(tile_symbols), current_step |-> 0,
                   max_steps |-> shape[1] * shape[2] + 10,
                   observation |-> Absent]
        /\ last' = [Fresh(grid') EXCEPT !.op = "create"]
    /\ UNCHANGED <<tile_symbols, adjacency_bool, streak, stopped, decided, twin, TILES,
                   rng, solo, mem>>

\* WFCWrapper.reset.
EnvReset ==
    /\ last.op = "none"
    /\ env # Absent
    /\ grid' = InitializeWfcGrid(env.map_length, env.map_width, tile_symbols)
    /\ \E o \in GetObservation(grid', env) :
        /\ env' = [env EXCEPT !.current_step = 0,
                              !.observation = IF o.raised THEN @ ELSE o]
        /\ last' = [Fresh(grid') EXCEPT !.op = "env_reset", !.pre = grid,
                                        !.raised = o.raised]
    /\ UNCHANGED <<tile_symbols, adjacency_bool, streak, stopped, decided, twin, TILES,
                   rng, solo, mem>>

\* WFCWrapper.step, called by a driver that holds an observation, until the
\* step limit.
EnvStep ==
    /\ last.op = "none"
    /\ env # Absent
    /\ env.observation # Absent
    /\ env.current_step < env.max_steps
    /\ \E action \in [1..env.num_tiles -> Logits] :
        \E out \in BiomeWfcStep(grid, Softmax(action), FALSE) :
            \E o \in GetObservation(out.grid, env) :
                LET current_step == env.current_step + 1
                    limit == /\ ~out.terminated /\ ~out.truncated
                             /\ current_step >= env.max_steps
                IN  /\ grid' = out.grid
                    /\ env' = [env EXCEPT !.current_step = current_step,
                                          !.observation = IF o.raised THEN @ ELSE o]
                    /\ last' = [op |-> "env_step", action_probs |-> Softmax(action),
                                deterministic |-> FALSE, pre |-> grid,
                                at |-> NoneCell, sel |-> out.sel,
                                chosen |-> out.chosen,
                                propagated |-> out.propagated, prop |-> out.prop,
                                terminated |-> out.terminated,
                                truncated |-> (out.truncated \/ limit),
                                raised |-> o.raised,
                                shown |-> env.observation.pos_tuple]
    /\ UNCHANGED <<tile_symbols, adjacency_bool, streak, stopped, decided, twin, TILES,
                   rng, solo, mem>>

NextDriver == Build \/ Create \/ EnvReset \/ EnvStep \/ Return

\* The driver of wfc_env: declarations, adjacency matrix, wrapper, episodes.
SpecDriver == InitDriver /\ [][NextDriver]_vars

\* ------------------------------------------------- the random generator
\* The functions draw from the generator of the random module, of which the
\* process has one. A seed fixes the stream of its draws; a draw is a number
\* in [0, 1) given as <<numerator, denominator>>, and each call of
\* random.choice or random.uniform takes the next one.
Draws == {<<0, 3>>, <<2, 3>>}
Streams == [1..StreamLen -> Draws]

\* random.choice(seq) with the draw u: seq[floor(u * len(seq))].
RandomChoice(seq, u) == seq[1 + (u[1] * Len(seq)) \div u[2]]

\* The tiles of a set in the order a loop goes through them, taken to be the
\* order of the catalog.
TileList(tiles) ==
    LET F[i \in 0..Len(tile_symbols)] ==
            IF i = 0 THEN <<>>
            ELSE IF tile_symbols[i] \in tiles THEN Append(F[i - 1], tile_symbols[i])
            ELSE F[i - 1]
    IN  F[Len(tile_symbols)]

\* The loop over zip(weights, valid_tiles) with r = u * total: the first tile
\* with r <= cum, valid_tiles[-1] otherwise.
RECURSIVE WalkWeights(_, _, _, _, _, _)
WalkWeights(valid_tiles, action_probs, u, total, i, cum) ==
    IF i > Len(valid_tiles) THEN valid_tiles[Len(valid_tiles)]
    ELSE LET next == cum + Max0(Prob(action_probs, valid_tiles[i]))
         IN  IF u[1] * total <= next * u[2]
             THEN valid_tiles[i]
             ELSE WalkWeights(valid_tiles, action_probs, u, total, i + 1, next)

\* find_lowest_entropy_cell in random mode with the generator at position pos
\* of the stream: what it returns and where it leaves the generator.
DrawnCell(g, stream, pos) ==
    LET candidates == Candidates(g)
    IN  IF candidates = <<>> THEN [ret |-> NoneCell, pos |-> pos]
        ELSE [ret |-> RandomChoice(candidates, stream[pos + 1]), pos |-> pos + 1]

\* The stochastic path of collapse_cell with the generator at position pos.
DrawnCollapse(g, x, y, action_probs, stream, pos) ==
    LET possible_tiles == g[y][x]
        valid_tiles == TileList(ValidTiles(possible_tiles, action_probs))
        total == TotalWeight(ValidTiles(possible_tiles, action_probs), action_probs)
        chosen_tile ==
            IF total > Eps
            THEN WalkWeights(valid_tiles, action_probs, stream[pos + 1], total, 1, 0)
            ELSE RandomChoice(TileList(possible_tiles), stream[pos + 1])
    IN  IF possible_tiles = {}
        THEN [grid |-> g, ret |-> NoneTile, pos |-> pos]
        ELSE [grid |-> [g EXCEPT ![y][x] = {chosen_tile}], ret |-> chosen_tile,
              pos |-> pos + 1]

\* biome_wfc_step(..., deterministic=False) with the generator at position
\* pos: the outcome and where the call leaves the generator. The selector
\* call of step 4 draws too when a cell is still undecided.
DrawnStep(g, action_probs, stream, pos) ==
    LET first == DrawnCell(g, stream, pos)
        sel == first.ret
    IN  IF sel = NoneCell
        THEN [out |-> Outcome(g, Classify(g), NoneCell, NoneTile, FALSE, NoProp(g)),
              pos |-> first.pos]
        ELSE
        LET co == DrawnCollapse(g, sel[1], sel[2], action_probs, stream, first.pos)
        IN  IF co.ret = NoneTile
            THEN [out |-> Outcome(co.grid, Truncated, sel, NoneTile, FALSE, NoProp(co.grid)),
                  pos |-> co.pos]
            ELSE
            LET prop == PropagateConstraints(co.grid, sel[1], sel[2])
                again == DrawnCell(prop.grid, stream, co.pos)
            IN  IF ~prop.ok
                THEN [out |-> Outcome(prop.grid, Truncated, sel, co.ret, TRUE, prop),
                      pos |-> co.pos]
                ELSE IF again.ret = NoneCell
                THEN [out |-> Outcome(prop.grid, Classify(prop.grid), sel, co.ret, TRUE, prop),
                      pos |-> again.pos]
                ELSE [out |-> Outcome(prop.grid, Running, sel, co.ret, TRUE, prop),
                      pos |-> again.pos]

\* The weight vectors of the two drivers: a weight for every tile, none or
\* well above the threshold.
SharedProbs == [1..Len(tile_symbols) -> {0, 3}]

\* Two grids in one process after random.seed: grid is the first, twin the
\* second, rng the generator of the process. solo is the first grid run
\* alone from the same seed, call for call with the same weight vectors.
InitShared ==
    \E wh \in Shapes :
        /\ InitCatalog(wh[1], wh[2])
        /\ grid = InitializeWfcGrid(wh[1], wh[2], tile_symbols)
        /\ last = Fresh(grid)
        /\ streak = 0
        /\ stopped = FALSE
        /\ decided = {}
        /\ twin = Twin(grid, FALSE, FALSE)
        /\ TILES = Absent
        /\ env = Absent
        /\ rng \in {[stream |-> st, pos |-> 0] : st \in Streams}
        /\ solo = [grid |-> grid, pos |-> 0, sel |-> NoneCell, chosen |-> NoneTile,
                   terminated |-> FALSE, truncated |-> FALSE]
        /\ mem = Absent

\* One stochastic step on the first grid (and the same call in the run alone).
StepFirst ==
    /\ rng.pos + 3 <= StreamLen
    /\ \E action_probs \in SharedProbs :
        \E here \in {DrawnStep(grid, action_probs, rng.stream, rng.pos)},
           alone \in {DrawnStep(solo.grid, action_probs, rng.stream, solo.pos)} :
            /\ grid' = here.out.grid
            /\ rng' = [rng EXCEPT !.pos = here.pos]
            /\ solo' = [grid |-> alone.out.grid, pos |-> alone.pos,
                        sel |-> alone.out.sel, chosen |-> alone.out.chosen,
                        terminated |-> alone.out.terminated,
                        truncated |-> alone.out.truncated]
            /\ last' = [op |-> "step_first", action_probs |-> action_probs,
                        deterministic |-> FALSE, pre |-> grid,
                        at |-> NoneCell, sel |-> here.out.sel,
                        chosen |-> here.out.chosen,
                        propagated |-> here.out.propagated, prop |-> here.out.prop,
                        terminated |-> here.out.terminated,
                        truncated |-> here.out.truncated,
                        raised |-> FALSE, shown |-> NoneCell]
    /\ UNCHANGED <<tile_symbols, adjacency_bool, streak, stopped, decided, twin, TILES, env, mem>>

\* One stochastic step on the second grid.
StepOther ==
    /\ rng.pos + 3 <= StreamLen
    /\ \E action_probs \in SharedProbs :
        \E here \in {DrawnStep(twin.grid, action_probs, rng.stream, rng.pos)} :
            /\ twin' = Twin(here.out.grid, here.out.terminated, here.out.truncated)
            /\ rng' = [rng EXCEPT !.pos = here.pos]
            /\ last' = [Fresh(grid) EXCEPT !.op = "step_other"]
    /\ UNCHANGED <<tile_symbols, adjacency_bool, grid, streak, stopped, decided, TILES, env,
                   solo, mem>>

NextShared == StepFirst \/ StepOther

\* Two grids stepped in any interleaving in one process.
SpecShared == InitShared /\ [][NextShared]_vars

\* ------------------------------------------------------------ the objects
\* The grid as Python holds it: a list of row objects, each a list of
\* references to set objects. mem = [rows, slots, sets]: rows[y + 1] is the
\* row object of row y, slots[r][x + 1] the set object in column x of row
\* object r, sets[s] the tiles of set object s.

\* A row object that every row of the grid shares.
RowObjectShared(y) == 0

\* The row object initialize_wfc_grid makes for row y: "row = []" runs once
\* per row.
RowObject(y) == y

\* The set object it makes for cell (x, y): set(tile_symbols) runs once per
\* cell.
SetObject(x, y, width) == y * width + x

\* initialize_wfc_grid(width, height, tile_symbols), object by object.
Allocate(width, height, symbols) ==
    [rows |-> [k \in 1..height |-> RowObject(k - 1)],
     slots |-> [r \in {RowObject(y) : y \in 0..(height - 1)} |->
                    LET y == CHOOSE yy \in 0..(height - 1) :
                                /\ RowObject(yy) = r
                                /\ \A zz \in 0..(height - 1) :
                                        RowObject(zz) = r => zz <= yy
                    IN  [k \in 1..width |-> SetObject(k - 1, y, width)]],
     sets |-> [o \in 0..(width * height - 1) |->
                    {symbols[i] : i \in 1..Len(symbols)}]]

\* The grid a reader sees through the objects: grid[y][x].
View(m) ==
    [y \in 0..(Len(m.rows) - 1) |->
        [x \in 0..(Len(m.slots[m.rows[y + 1]]) - 1) |->
            m.sets[m.slots[m.rows[y + 1]][x + 1]]]]

\* The places that hold a reference to a set object: <<row object, column>>.
Places(m) ==
    {<<q, k>> : q \in DOMAIN m.slots, k \in 1..Len(m.slots[m.rows[1]])}

\* grid[y][x] = dom: a new set object, bound in column x of the row object
\* of row y; a set object no row refers to any more is gone.
Rebind(m, x, y, dom) ==
    LET here == <<m.rows[y + 1], x + 1>>
        kept == {m.slots[p[1]][p[2]] : p \in Places(m) \ {here}}
        new == CHOOSE o \in 0..MaxEntries :
                    o \notin kept /\ \A p \in 0..(o - 1) : p \in kept
    IN  [rows |-> m.rows,
         slots |-> [m.slots EXCEPT ![here[1]][here[2]] = new],
         sets |-> [o \in kept \cup {new} |-> IF o = new THEN dom ELSE m.sets[o]]]

\* The assignments of one call, in order.
RECURSIVE ApplyWrites(_, _, _)
ApplyWrites(m, writes, i) ==
    IF i > Len(writes) THEN m
    ELSE ApplyWrites(Rebind(m, writes[i].cell[1], writes[i].cell[2], writes[i].dom),
                     writes, i + 1)

\* The assignments of one call of biome_wfc_step: the one of collapse_cell,
\* then those of propagate_constraints.
WritesOf(out) ==
    (IF out.chosen = NoneTile THEN <<>>
     ELSE <<[cell |-> out.sel, dom |-> {out.chosen}]>>) \o out.prop.writes

\* The driver has its catalog and adjacency matrix and no grid yet.
InitObjects ==
    /\ \E wh \in Shapes : InitCatalog(wh[1], wh[2])
    /\ grid = Absent
    /\ last = Fresh(Absent)
    /\ streak = 0
    /\ stopped = FALSE
    /\ decided = {}
    /\ twin = Absent
    /\ NothingAside

\* grid = initialize_wfc_grid(width, height, tile_symbols).
Initialize ==
    /\ last.op = "none"
    /\ \E wh \in Shapes :
        /\ Len(tile_symbols) * wh[1] * wh[2] <= MaxEntries
        /\ mem' = Allocate(wh[1], wh[2], tile_symbols)
        /\ grid' = View(mem')
        /\ last' = [Fresh(grid') EXCEPT !.op = "initialize", !.at = wh]
    /\ UNCHANGED <<tile_symbols, adjacency_bool, streak, stopped, decided, twin, TILES, env,
                   rng, solo>>

\* One call of biome_wfc_step on the objects.
StepObjects ==
    /\ last.op = "none"
    /\ mem # Absent
    /\ \E action_probs \in ActionProbs, deterministic \in BOOLEAN :
        \E out \in BiomeWfcStep(View(mem), action_probs, deterministic) :
            /\ mem' = ApplyWrites(mem, WritesOf(out), 1)
            /\ grid' = View(mem')
            /\ last' = [op |-> "step_objects", action_probs |-> action_probs,
                        deterministic |-> deterministic, pre |-> grid,
                        at |-> NoneCell, sel |-> out.sel, chosen |-> out.chosen,
                        propagated |-> out.propagated, prop |-> out.prop,
                        terminated |-> out.terminated, truncated |-> out.truncated,
                        raised |-> FALSE, shown |-> NoneCell]
    /\ UNCHANGED <<tile_symbols, adjacency_bool, streak, stopped, decided, twin, TILES, env,
                   rng, solo>>

NextObjects == Initialize \/ StepObjects \/ Return

\* Grids made by initialize_wfc_grid and stepped, object by object.
SpecObjects == InitObjects /\ [][NextObjects]_vars

\* ----------------------------------------------------------- the worklist
\* propagate_constraints called alone on any grid, with up to three tiles on
\* three cells.
InitProp ==
    \E wh \in Shapes, n \in 1..MaxTiles, h \in AxisKinds, v \in AxisKinds :
        /\ n * wh[1] * wh[2] <= MaxPropEntries
        /\ wh[1] = 1 => h = <<"eq", "eq">>
        /\ wh[2] = 1 => v = <<"eq", "eq">>
        /\ h = v \/ h = <<"eq", "eq">> \/ v = <<"eq", "eq">>
        /\ tile_symbols = SubSeq(Catalog, 1, n)
        /\ adjacency_bool = AdjacencyOf(h, v, n)
        /\ grid \in AllGrids(wh[1], wh[2], {Catalog[i] : i \in 1..n})
        /\ last = Fresh(grid)
        /\ streak = 0
        /\ stopped = FALSE
        /\ decided = {}
        /\ twin = Twin(grid, FALSE, FALSE)
        /\ NothingAside

SpecProp == InitProp /\ [][Propagate]_vars

\* The worklist without entry i.
Without(stack, i) ==
    SubSeq(stack, 1, i - 1) \o SubSeq(stack, i + 1, Len(stack))

\* The while loop of propagate_constraints with a pop that may take any
\* entry of the worklist: the states in which it may return.
RECURSIVE AnyOrderLoop(_)
AnyOrderLoop(st) ==
    IF st.stack = <<>> THEN {st}
    ELSE UNION {
        LET curr == st.stack[i]
            popped == [st EXCEPT !.stack = Without(@, i),
                                 !.pops = Append(@, curr)]
        IN  IF st.grid[curr[2]][curr[1]] = {}
            THEN AnyOrderLoop(popped)
            ELSE LET r == PropDirs(popped, curr[1], curr[2],
                                   st.grid[curr[2]][curr[1]], 0)
                 IN  IF r.ok THEN AnyOrderLoop(r) ELSE {r} :
        i \in 1..Len(st.stack)}

AnyOrder(g, start_x, start_y) ==
    AnyOrderLoop([grid |-> g, stack |-> <<<<start_x, start_y>>>>, ok |-> TRUE,
                  writes |-> <<>>, pushes |-> 0, pops |-> <<>>])

\* The pops of propagate_constraints in order, each with the worklist it was
\* taken from and the number of writes made before it.
RECURSIVE PopLog(_, _)
PopLog(st, log) ==
    IF st.stack = <<>> THEN log
    ELSE
    LET curr == st.stack[Len(st.stack)]
        popped == [st EXCEPT !.stack = SubSeq(@, 1, Len(@) - 1),
                             !.pops = Append(@, curr)]
        entry == [cell |-> curr, stack |-> st.stack, writes |-> Len(st.writes)]
    IN  IF st.grid[curr[2]][curr[1]] = {}
        THEN PopLog(popped, Append(log, entry))
        ELSE LET r == PropDirs(popped, curr[1], curr[2],
                               st.grid[curr[2]][curr[1]], 0)
             IN  IF r.ok THEN PopLog(r, Append(log, entry))
                 ELSE Append(log, entry)

PopsOf(g, start_x, start_y) ==
    PopLog([grid |-> g, stack |-> <<<<start_x, start_y>>>>, ok |-> TRUE,
            writes |-> <<>>, pushes |-> 0, pops |-> <<>>], <<>>)

\* ------------------------------------------------------------ the claims
Dom(g, c) == g[c[2]][c[1]]

\* The cell next to c in direction d (0:U, 1:D, 2:L, 3:R), inside the grid or not.
Towards(c, d) == <<c[1] + Offsets[d + 1][1], c[2] + Offsets[d + 1][2]>>

\* compatible(a, d, b): tile a allows tile b next to it in direction d.
Compatible(a, d, b) == adjacency_bool[TileToIndex(a)][d][TileToIndex(b)]

\* The weight the vector gives a tile; a tile the vector has no entry for has
\* no weight, which counts as 0.
WeightAt(action_probs, t) ==
    IF TileToIndex(t) + 1 \in DOMAIN action_probs
    THEN action_probs[TileToIndex(t) + 1] ELSE 0

AllCollapsed(g) == \A c \in CellsOf(g) : Cardinality(Dom(g, c)) = 1

\* Every pair of axis-adjacent cells holds compatible tiles, in the direction
\* from the one to the other.
AllCompatible(g) ==
    \A c \in CellsOf(g), d \in 0..3 :
        Towards(c, d) \in CellsOf(g) =>
            \A a \in Dom(g, c), b \in Dom(g, Towards(c, d)) : Compatible(a, d, b)

\* C1: whenever biome_wfc_step returns terminated=True on a grid that began as
\* initialize_wfc_grid made it, every cell holds exactly one tile and every
\* pair of axis-adjacent cells is compatible in the direction between them.
C1_TerminatedIsSolution ==
    (last.op = "step" /\ last.terminated) =>
        (AllCollapsed(grid) /\ AllCompatible(grid))

\* The same with a catalog of two tiles or more: then every cell has to be
\* collapsed or narrowed by propagation before it holds one tile.
TerminatedIsSolutionFromTwoTiles ==
    (last.op = "step" /\ last.terminated /\ Len(tile_symbols) >= 2) =>
        (AllCollapsed(grid) /\ AllCompatible(grid))

TerminatedAfterCollapse ==
    /\ last.op = "step" /\ last.terminated /\ last.propagated
    /\ Len(tile_symbols) >= 2
    /\ Cardinality(CellsOf(grid)) >= 3

\* Every tile of every cell has a compatible tile in the domain of each
\* in-bounds neighbour, for the direction from the cell to the neighbour.
ArcConsistent(g) ==
    \A c \in CellsOf(g), d \in 0..3 :
        Towards(c, d) \in CellsOf(g) =>
            \A t \in Dom(g, c) : \E u \in Dom(g, Towards(c, d)) : Compatible(t, d, u)

\* C2: whenever propagate_constraints returns True, every tile left in every
\* cell of the whole grid has a compatible tile in the domain of each
\* in-bounds axis neighbour, for the direction between them.
C2_SuccessIsArcConsistent ==
    (last.op \in {"step", "propagate"} /\ last.propagated /\ last.prop.ok) =>
        ArcConsistent(grid)

\* The same for the direction read from the neighbour to the cell: no reading
\* of "the direction between them" makes the grid arc-consistent.
SuccessIsArcConsistentEitherWay ==
    (last.op \in {"step", "propagate"} /\ last.propagated /\ last.prop.ok) =>
        \A c \in CellsOf(grid), d \in 0..3 :
            Towards(c, d) \in CellsOf(grid) =>
                \A t \in Dom(grid, c) : \E u \in Dom(grid, Towards(c, d)) :
                    Compatible(t, d, u) \/ Compatible(u, (IF d % 2 = 0 THEN d + 1 ELSE d - 1), t)

\* C3: after any biome_wfc_step call, whatever it returned, every cell's
\* domain is a subset of the cell's domain before the call.
C3_DomainsOnlyShrink ==
    last.op = "step" =>
        /\ CellsOf(grid) = CellsOf(last.pre)
        /\ \A c \in CellsOf(grid) : Dom(grid, c) \subseteq Dom(last.pre, c)

\* A later call of a sequence collapsed a cell that the propagation of an
\* earlier call had narrowed to two tiles of three.
CollapsedANarrowedCell ==
    /\ last.op = "step" /\ last.chosen # NoneTile
    /\ Dom(last.pre, last.sel) # TileSet
    /\ Dom(grid, last.sel) = {last.chosen}

\* C4: from an initialized W x H grid a stop (terminated or truncated) comes
\* within W x H calls: fewer than W x H Running results come in a row, so no
\* W x H + 1 of them do.
C4_StopWithinCells ==
    streak < Width(grid) * Height(grid)

\* The bound is met: on a grid of three cells or more, every call but the
\* last one possible has returned Running.
RunningUpToLastCell ==
    /\ last.op = "step"
    /\ Cardinality(CellsOf(grid)) >= 3
    /\ streak = Cardinality(CellsOf(grid)) - 1

\* C5: two runs in deterministic mode from equal grids with the same catalog,
\* adjacency and weight vectors hold equal grids after every call and return
\* the same (terminated, truncated).
C5_DeterministicRunsAgree ==
    /\ twin.grid = grid
    /\ last.op = "step" =>
        (twin.terminated = last.terminated /\ twin.truncated = last.truncated)

\* Both runs are past a second call, in which more than one cell was a
\* candidate and propagation changed the grid.
TwoRunsPastSecondCall ==
    /\ last.op = "step" /\ last.deterministic
    /\ last.pre # InitializeWfcGrid(Width(grid), Height(grid), tile_symbols)
    /\ Len(Candidates(last.pre)) >= 2
    /\ Len(last.prop.writes) >= 1
    /\ twin.grid = grid

\* The grid propagate_constraints was called on: the caller's grid, or in a
\* step the grid with the selected cell collapsed.
BeforePropagation ==
    IF last.op = "step"
    THEN [last.pre EXCEPT ![last.sel[2]][last.sel[1]] = {last.chosen}]
    ELSE last.pre

\* The cells the call emptied.
NewlyEmpty ==
    {c \in CellsOf(grid) : Dom(BeforePropagation, c) # {} /\ Dom(grid, c) = {}}

\* C6: when propagation removes the last tile of a neighbour's domain,
\* propagate_constraints sets that domain to empty and returns False at once:
\* the emptying assignment is the last one of the call, it is the only one that
\* empties a cell, the cell is a neighbour of the cell popped last, and
\* biome_wfc_step returns (terminated = False, truncated = True); a call that
\* returns True has emptied no cell. On a 2 x 1 grid with cell 1 restricted to
\* {B} and A not compatible with B to its right, collapsing cell 0 to A empties
\* cell 1 and the step is Truncated.
C6_ContradictionAbortsAtOnce ==
    /\ (last.op \in {"step", "propagate"} /\ last.propagated) =>
        LET writes == last.prop.writes
            pops == last.prop.pops
        IN  /\ grid = last.prop.grid
            /\ \A i \in 1..(Len(writes) - 1) : writes[i].dom # {}
            /\ last.prop.ok => (NewlyEmpty = {} /\ \A i \in 1..Len(writes) : writes[i].dom # {})
            /\ ~last.prop.ok =>
                /\ Len(writes) >= 1 /\ writes[Len(writes)].dom = {}
                /\ NewlyEmpty = {writes[Len(writes)].cell}
                /\ \E d \in 0..3 : Towards(pops[Len(pops)], d) = writes[Len(writes)].cell
                /\ last.op = "step" => (last.truncated /\ ~last.terminated)
    /\ ( /\ last.op = "step"
         /\ Width(grid) = 2 /\ Height(grid) = 1
         /\ Dom(last.pre, <<0, 0>>) = {"A", "B"} /\ Dom(last.pre, <<1, 0>>) = {"B"}
         /\ ~Compatible("A", 3, "B")
         /\ last.chosen = "A" ) =>
        (Dom(grid, <<1, 0>>) = {} /\ last.truncated /\ ~last.terminated)

\* The scenario of C6: the step collapsed cell 0 of [{A, B}, {B}] to A.
ScenarioC ==
    /\ last.op = "step" /\ last.deterministic
    /\ Width(grid) = 2 /\ Height(grid) = 1
    /\ Dom(last.pre, <<0, 0>>) = {"A", "B"} /\ Dom(last.pre, <<1, 0>>) = {"B"}
    /\ ~Compatible("A", 3, "B")
    /\ last.chosen = "A"
    /\ ~last.prop.ok /\ last.truncated

\* Every tile of the cell's domain has weight <= 0.
NoPositiveWeight(action_probs, possible_tiles) ==
    \A t \in possible_tiles : WeightAt(action_probs, t) <= 0

IsBestOf(t, action_probs, possible_tiles) ==
    /\ t \in possible_tiles
    /\ \A u \in possible_tiles :
        \/ WeightAt(action_probs, u) < WeightAt(action_probs, t)
        \/ /\ WeightAt(action_probs, u) = WeightAt(action_probs, t)
           /\ TileToIndex(t) <= TileToIndex(u)

\* C8: in deterministic mode, when some tile of the cell's domain has weight
\* > 0, collapse_cell returns the tile t of the domain with the greatest weight,
\* the first in catalog order among equals, and sets the domain to {t}, leaving
\* the other cells alone; on a 1 x 1 grid of 2 tiles with weights [1, 0] the
\* step collapses to the first tile and returns Terminated.
C8_GreatestWeightFirstInOrder ==
    /\ ( /\ last.op = "collapse" /\ last.deterministic
         /\ ~NoPositiveWeight(last.action_probs, Dom(last.pre, last.at)) ) =>
        /\ IsBestOf(last.chosen, last.action_probs, Dom(last.pre, last.at))
        /\ grid = [last.pre EXCEPT ![last.at[2]][last.at[1]] = {last.chosen}]
    /\ ( /\ last.op = "step" /\ last.deterministic /\ last.sel # NoneCell
         /\ ~NoPositiveWeight(last.action_probs, Dom(last.pre, last.sel)) ) =>
        /\ IsBestOf(last.chosen, last.action_probs, Dom(last.pre, last.sel))
        /\ Dom(BeforePropagation, last.sel) = {last.chosen}
    /\ ( /\ last.op = "step" /\ last.deterministic
         /\ Width(grid) = 1 /\ Height(grid) = 1 /\ Len(tile_symbols) = 2
         /\ last.pre = InitializeWfcGrid(1, 1, tile_symbols)
         /\ last.action_probs = <<3, 0>> ) =>
        (Dom(grid, <<0, 0>>) = {"A"} /\ last.terminated /\ ~last.truncated)

\* The scenario of C8: one deterministic step on the initialized 1 x 1 grid
\* of two tiles with weights [1, 0].
ScenarioA ==
    /\ last.op = "step" /\ last.deterministic
    /\ Width(grid) = 1 /\ Height(grid) = 1 /\ Len(tile_symbols) = 2
    /\ last.pre = InitializeWfcGrid(1, 1, tile_symbols)
    /\ last.action_probs = <<3, 0>>
    /\ last.chosen = "A" /\ last.terminated

\* C9: in stochastic mode, for a non-empty domain whose tiles all have weight
\* below epsilon (zero, negative or missing), collapse_cell does not return
\* None: it returns a tile t of the domain and sets the domain to {t}, leaving
\* the other cells alone.
C9_StochasticFallbackCollapses ==
    ( /\ last.op = "collapse" /\ ~last.deterministic
      /\ Dom(last.pre, last.at) # {}
      /\ \A t \in Dom(last.pre, last.at) : WeightAt(last.action_probs, t) < Eps ) =>
        /\ last.chosen # NoneTile
        /\ last.chosen \in Dom(last.pre, last.at)
        /\ grid = [last.pre EXCEPT ![last.at[2]][last.at[1]] = {last.chosen}]

\* A stochastic collapse of a domain of three tiles, one of negative weight,
\* one of positive weight below epsilon, one without an entry, that chose the
\* last tile.
FallbackChoseLastTile ==
    /\ last.op = "collapse" /\ ~last.deterministic
    /\ Dom(last.pre, last.at) = {"A", "B", "C"}
    /\ last.action_probs = <<-1, 1>>
    /\ last.chosen = "C" /\ Dom(grid, last.at) = {"C"}

\* C10: for every grid, in either mode, find_lowest_entropy_cell returns no
\* cell whose domain size is 0 or 1, and returns None exactly when no cell has
\* a domain of more than one tile.
C10_SelectorValidity ==
    last.op \in {"select", "step"} =>
        /\ last.sel # NoneCell =>
            (last.sel \in CellsOf(last.pre) /\ Cardinality(Dom(last.pre, last.sel)) > 1)
        /\ last.sel = NoneCell <=>
            \A c \in CellsOf(last.pre) : Cardinality(Dom(last.pre, c)) <= 1

\* The selector ran on a grid holding an empty cell, a collapsed cell and
\* open cells, the first of them in scan order empty, and returned a cell.
SelectedAmongEmptyAndCollapsed ==
    /\ last.op = "select" /\ ~last.deterministic
    /\ Dom(last.pre, <<0, 0>>) = {}
    /\ \E c \in CellsOf(last.pre) : Cardinality(Dom(last.pre, c)) = 1
    /\ last.sel # NoneCell /\ last.sel # Candidates(last.pre)[1]

\* The call ran the whole-grid scan: the selector found no candidate, before
\* any collapse or after a successful propagation.
ScanRan ==
    \/ last.sel = NoneCell
    \/ /\ last.propagated /\ last.prop.ok
       /\ \A c \in CellsOf(grid) : Cardinality(Dom(grid, c)) <= 1

\* C11: when the selector finds no candidate, biome_wfc_step returns
\* Truncated if a domain is empty and Terminated if every domain has size 1,
\* and one of the two is the case (the branch for any other combination is
\* never taken); terminated = True is returned if and only if every domain has
\* size 1 when the call returns.
C11_ScanVerdict ==
    last.op = "step" =>
        /\ ScanRan =>
            /\ (\E c \in CellsOf(grid) : Dom(grid, c) = {}) =>
                (last.truncated /\ ~last.terminated)
            /\ AllCollapsed(grid) => (last.terminated /\ ~last.truncated)
            /\ (\E c \in CellsOf(grid) : Dom(grid, c) = {}) \/ AllCollapsed(grid)
        /\ last.terminated <=> AllCollapsed(grid)

\* The scan ran after a collapse and a successful propagation on a grid of
\* three cells or more, and found every cell collapsed.
ScanAfterPropagationTerminated ==
    /\ last.op = "step" /\ last.propagated /\ last.prop.ok
    /\ Len(last.prop.writes) >= 1
    /\ Cardinality(CellsOf(grid)) >= 3
    /\ AllCollapsed(grid) /\ last.terminated

HasEmptyDomain(g) == \E c \in CellsOf(g) : Dom(g, c) = {}

\* C12: a contradiction is terminal for the grid: a biome_wfc_step call on a
\* grid that holds an empty domain returns truncated = True, and no call
\* returns Running or Terminated while the grid holds an empty domain.
C12_ContradictionIsTerminal ==
    last.op = "step" =>
        /\ HasEmptyDomain(last.pre) => (last.truncated /\ ~last.terminated)
        /\ HasEmptyDomain(grid) => (last.truncated /\ ~last.terminated)

\* The part of C12 that the whole-grid scan gives: no call returns Terminated
\* while the grid holds an empty domain.
NotTerminatedWithEmptyDomain ==
    (last.op = "step" /\ HasEmptyDomain(grid)) => ~last.terminated

\* C13: after a step that collapsed a cell and did not return Truncated, every
\* in-bounds neighbour of the collapsed cell holds only tiles compatible with
\* the chosen tile in the direction from the collapsed cell to the neighbour;
\* on a 2 x 1 grid of full domains with A compatible only with A and B only
\* with B, the step that collapses cell 0 to A leaves cell 1 with {A} and
\* returns Terminated.
C13_NeighboursKeepCompatibleTiles ==
    /\ (last.op = "step" /\ last.chosen # NoneTile /\ ~last.truncated) =>
        \A d \in 0..3 :
            Towards(last.sel, d) \in CellsOf(grid) =>
                \A t \in Dom(grid, Towards(last.sel, d)) : Compatible(last.chosen, d, t)
    /\ ( /\ last.op = "step"
         /\ Len(tile_symbols) = 2
         /\ last.pre = InitializeWfcGrid(2, 1, tile_symbols)
         /\ \A a \in TileSet, b \in TileSet, d \in 0..3 : Compatible(a, d, b) <=> a = b
         /\ last.sel = <<0, 0>> /\ last.chosen = "A" ) =>
        (Dom(grid, <<1, 0>>) = {"A"} /\ last.terminated /\ ~last.truncated)

\* The scenario of C13: the step collapsed cell 0 of the full 2 x 1 grid to A
\* and propagation narrowed cell 1.
ScenarioB ==
    /\ last.op = "step"
    /\ Len(tile_symbols) = 2
    /\ last.pre = InitializeWfcGrid(2, 1, tile_symbols)
    /\ \A a \in TileSet, b \in TileSet, d \in 0..3 : Compatible(a, d, b) <=> a = b
    /\ last.sel = <<0, 0>> /\ last.chosen = "A"
    /\ last.prop.writes = <<[cell |-> <<1, 0>>, dom |-> {"A"}]>>
    /\ last.terminated

\* What deterministic-mode collapse_cell returns when it fails: its results on
\* the non-empty domains under a weight vector without a positive weight.
DetFailureResults ==
    UNION {ChosenTiles(d, <<>>, TRUE) : d \in (SUBSET TileSet) \ {{}}}

\* C16: collapse_cell called on a cell whose domain is already empty leaves
\* the grid unchanged and returns a result that differs from the result of a
\* deterministic-mode collapse failure.
C16_EmptyDomainIsDistinctNoOp ==
    (last.op = "collapse" /\ Dom(last.pre, last.at) = {}) =>
        /\ grid = last.pre
        /\ last.chosen \notin DetFailureResults

\* The part of C16 that holds: the call on an empty domain changes nothing.
EmptyDomainCollapseChangesNothing ==
    (last.op = "collapse" /\ Dom(last.pre, last.at) = {}) => grid = last.pre

\* C14: collapse_cell and propagate_constraints called with a coordinate
\* outside 0 <= x < width, 0 <= y < height signal an error and leave the grid
\* unchanged, and collapse_cell rejects a weight vector that has no entry for
\* the index of a tile of the cell.
C14_CallerErrorsRejected ==
    /\ (last.op \in {"collapse_at", "propagate_from"} /\ last.at \notin CellsOf(last.pre)) =>
        (last.raised /\ grid = last.pre)
    /\ ( /\ last.op = "collapse_at" /\ last.at \in CellsOf(last.pre)
         /\ \E t \in Dom(last.pre, last.at) : TileToIndex(t) + 1 \notin DOMAIN last.action_probs ) =>
        (last.raised /\ grid = last.pre)

\* What the part of C14 about coordinates comes to in the code: an index past
\* the end, or more negative than the length, raises IndexError and the grid
\* is unchanged.
IndexPastTheEndRaises ==
    ( /\ last.op \in {"collapse_at", "propagate_from"}
      /\ \/ last.at[1] >= Width(last.pre) \/ last.at[1] < -Width(last.pre)
         \/ last.at[2] >= Height(last.pre) \/ last.at[2] < -Height(last.pre) ) =>
        (last.raised /\ grid = last.pre)

\* Negative coordinates are taken, and change the grid.
NegativeCoordinateNeverChangesGrid ==
    ( /\ last.op \in {"collapse_at", "propagate_from"}
      /\ (last.at[1] < 0 \/ last.at[2] < 0) ) =>
        grid = last.pre

\* A declaration that lacks the edge label of some direction.
LacksLabel(tile) ==
    \/ "edges" \notin DOMAIN tile
    \/ \E d \in 1..4 : DIRECTIONS[d] \notin DOMAIN tile.edges

\* C15: building the adjacency matrix from declarations in which some tile
\* lacks an edge label for some direction reports an error and yields no
\* matrix.
C15_MissingLabelFailsConstruction ==
    (last.op = "build" /\ \E i \in DOMAIN TILES : LacksLabel(TILES[i])) =>
        (last.raised /\ adjacency_bool = Absent)

\* What the code does instead: the construction returns normally, and a tile
\* without the label of a direction is compatible with nothing in that
\* direction and, in the opposite direction, nothing is compatible with it.
MissingLabelIsSilentlyIncompatible ==
    last.op = "build" =>
        /\ ~last.raised
        /\ \A i \in DOMAIN TILES, d \in 1..4 :
              ("edges" \notin DOMAIN TILES[i] \/ DIRECTIONS[d] \notin DOMAIN TILES[i].edges) =>
                \A j \in DOMAIN TILES, o \in 1..4 :
                    /\ ~adjacency_bool[i - 1][d - 1][j - 1]
                    /\ DIRECTIONS[o] = OPPOSITE_DIRECTION[DIRECTIONS[d]] =>
                          ~adjacency_bool[j - 1][o - 1][i - 1]

\* C17: the cell of the observation the driver held is the cell that the next
\* WFCWrapper.step collapses.
C17_StepCollapsesShownCell ==
    (last.op = "env_step" /\ last.shown # NoneCell) => last.sel = last.shown

\* What the code gives: the cell shown and the cell collapsed are two
\* independent choices among the cells of least domain size of the same grid.
ShownAndCollapsedAreBothMinimal ==
    last.op = "env_step" =>
        /\ last.shown \in FindLowestEntropyCell(last.pre, FALSE)
        /\ last.sel \in FindLowestEntropyCell(last.pre, FALSE)

\* The geometric direction of the offsets of dir_idx 0..3: row 0 is the top
\* row, so (0,-1) is Up, (0,1) Down, (-1,0) Left, (1,0) Right.
Geometric == <<"U", "D", "L", "R">>

\* Tile b may lie next to tile a on a's side geo, by the declared labels.
EdgesFit(a, geo, b) ==
    TILES[TileToIndex(a) + 1].edges[geo]
        = TILES[TileToIndex(b) + 1].edges[OPPOSITE_DIRECTION[geo]]

\* The tiles of a neighbour on side geo that no tile of the popped cell
\* supports.
Unsupported(current_possibilities, neighbor_possibilities, geo) ==
    {t \in neighbor_possibilities :
        ~ \E ct \in current_possibilities : EdgesFit(ct, geo, t)}

\* The grid after the collapse of a step, and the direction loop of the first
\* pop of its propagation (the collapsed cell).
Collapsed(call) == [call.pre EXCEPT ![call.sel[2]][call.sel[1]] = {call.chosen}]
FirstPop(call) ==
    PropDirs([NoProp(Collapsed(call)) EXCEPT !.pops = <<call.sel>>],
             call.sel[1], call.sel[2], {call.chosen}, 0)

\* C20: in a step of the wrapper, each in-bounds neighbour that the first pop
\* of the propagation revises (all of them unless the loop returns at a
\* contradiction) loses exactly the tiles that no tile of the popped cell
\* supports in the geometric direction of the neighbour, by the labels from
\* which the driver built the matrix.
C20_DirectionIndexMatchesDriverSlices ==
    (last.op = "env_step" /\ last.propagated) =>
        \A d \in 0..3 :
            LET n == Towards(last.sel, d)
                r == FirstPop(last)
            IN  ( /\ n \in CellsOf(last.pre)
                  /\ r.ok \/ \E k \in DOMAIN r.writes : r.writes[k].cell = n ) =>
                    Dom(r.grid, n)
                        = Dom(last.pre, n)
                            \ Unsupported({last.chosen}, Dom(last.pre, n), Geometric[d + 1])

\* What the code does: dir_idx 1, 2, 3 (Down, Left, Right) read the slices
\* the driver filled for R, D, L.
SliceRead == <<"U", "R", "D", "L">>
NeighboursRevisedBySliceOfSameIndex ==
    (last.op = "env_step" /\ last.propagated) =>
        \A d \in 0..3 :
            LET n == Towards(last.sel, d)
                r == FirstPop(last)
            IN  ( /\ n \in CellsOf(last.pre)
                  /\ r.ok \/ \E k \in DOMAIN r.writes : r.writes[k].cell = n ) =>
                    Dom(r.grid, n)
                        = Dom(last.pre, n)
                            \ Unsupported({last.chosen}, Dom(last.pre, n), SliceRead[d + 1])

\* The first pop is the beginning of the propagation the step ran.
FirstPopBeginsPropagation ==
    (last.op = "env_step" /\ last.propagated) =>
        /\ Len(FirstPop(last).writes) <= Len(last.prop.writes)
        /\ SubSeq(last.prop.writes, 1, Len(FirstPop(last).writes)) = FirstPop(last).writes

\* C18: with a fixed seed, the first of two grids stepped in any interleaving
\* goes through the grids and results of its run alone: after each of its
\* steps its cells, the cell selected, the tile chosen and the flags returned
\* are those of the same step of the run alone.
C18_InterleavedRunsAreIndependent ==
    last.op = "step_first" =>
        /\ grid = solo.grid
        /\ last.sel = solo.sel /\ last.chosen = solo.chosen
        /\ last.terminated = solo.terminated /\ last.truncated = solo.truncated

\* What holds in the code: the cells of the two grids are separate objects,
\* and the runs agree as long as the other grid has drawn nothing.
SameAsAloneWhileOtherIdle ==
    (last.op = "step_first" /\ rng.pos = solo.pos) => grid = solo.grid

\* Each seeded step is one of the outcomes of biome_wfc_step.
DrawnStepIsAStep ==
    last.op = "step_first" =>
        \E out \in BiomeWfcStep(last.pre, last.action_probs, FALSE) :
            /\ out.grid = grid /\ out.sel = last.sel /\ out.chosen = last.chosen
            /\ out.terminated = last.terminated /\ out.truncated = last.truncated

\* The cells a call assigned to, and the last set assigned to a cell.
Written(call) ==
    {WritesOf(call)[k].cell : k \in 1..Len(WritesOf(call))}
LastWritten(call, c) ==
    LET k == CHOOSE j \in 1..Len(WritesOf(call)) :
                /\ WritesOf(call)[j].cell = c
                /\ \A i \in (j + 1)..Len(WritesOf(call)) : WritesOf(call)[i].cell # c
    IN  WritesOf(call)[k].dom

\* C19: initialize_wfc_grid(width, height, tile_symbols) gives height rows of
\* width cells, each with the full catalog, and the cells are independent:
\* after a step, a cell the step assigned to holds what was last assigned to
\* it and every other cell holds what it held before.
C19_FreshIndependentCells ==
    /\ last.op = "initialize" =>
        /\ Height(grid) = last.at[2] /\ Width(grid) = last.at[1]
        /\ \A c \in CellsOf(grid) : Dom(grid, c) = TileSet
    /\ last.op = "step_objects" =>
        \A c \in CellsOf(grid) :
            Dom(grid, c) = IF c \in Written(last) THEN LastWritten(last, c)
                           ELSE Dom(last.pre, c)

\* A step collapsed a cell of a grid of two rows and the cell below or above
\* it still has the full catalog of two or more tiles.
CollapsedOneOfTwoRows ==
    /\ last.op = "step_objects" /\ last.chosen # NoneTile
    /\ Height(grid) = 2 /\ Len(tile_symbols) >= 2
    /\ Dom(grid, <<last.sel[1], 1 - last.sel[2]>>) = TileSet

\* C21: for every grid and start cell, every order of popping the worklist
\* gives the verdict of propagate_constraints, and on success its final grid.
C21_PopOrderDoesNotMatter ==
    last.op = "propagate" =>
        \A r \in AnyOrder(last.pre, last.at[1], last.at[2]) :
            /\ r.ok = last.prop.ok
            /\ r.ok => r.grid = grid

\* A propagation on which two pop orders differ in the cells they pop.
TwoOrdersPopDifferently ==
    /\ last.op = "propagate" /\ last.prop.ok
    /\ \E r \in AnyOrder(last.pre, last.at[1], last.at[2]) :
            r.pops # last.prop.pops /\ Len(r.pops) >= 4

\* The number of (cell, tile) pairs of a grid.
RECURSIVE SumOver(_, _)
SumOver(g, cells) ==
    IF cells = {} THEN 0
    ELSE LET c == CHOOSE d \in cells : TRUE
         IN  Cardinality(Dom(g, c)) + SumOver(g, cells \ {c})
Entries(g) == SumOver(g, CellsOf(g))

\* The grid before write k of a propagation that started on the grid g.
RECURSIVE GridBeforeWrite(_, _, _)
GridBeforeWrite(g, writes, k) ==
    IF k <= 1 THEN g
    ELSE LET w == writes[k - 1]
         IN  [GridBeforeWrite(g, writes, k - 1) EXCEPT ![w.cell[2]][w.cell[1]] = w.dom]

\* C22: propagate_constraints returns on every grid, start cell and
\* adjacency matrix, with an empty worklist or with a contradiction; every
\* write strictly shrinks a domain and every push goes with such a write, so
\* the pushes after the seed are at most the tiles removed, which are at
\* most width x height x |catalog|; on success each pushed cell and the seed
\* were popped once each.
C22_PropagationBounded ==
    last.op = "propagate" =>
        /\ last.prop.ok => last.prop.stack = <<>>
        /\ ~last.prop.ok => HasEmptyDomain(grid)
        /\ \A k \in DOMAIN last.prop.writes :
              LET w == last.prop.writes[k]
                  before == Dom(GridBeforeWrite(last.pre, last.prop.writes, k), w.cell)
              IN  w.dom \subseteq before /\ w.dom # before
        /\ last.prop.pushes <= Len(last.prop.writes)
        /\ last.prop.pushes <= Entries(last.pre) - Entries(grid)
        /\ last.prop.pushes <= Width(last.pre) * Height(last.pre) * Len(tile_symbols)
        /\ last.prop.ok => Len(last.prop.pops) = last.prop.pushes + 1

\* A successful propagation that pushed three times.
PushedThreeTimes ==
    last.op = "propagate" /\ last.prop.ok /\ last.prop.pushes >= 3

\* The cells a propagation assigned to.
Shrunk(call) ==
    {call.prop.writes[k].cell : k \in DOMAIN call.prop.writes}

\* Every neighbour of c holds only tiles that some tile of c's domain allows.
SupportsNeighbours(g, c) ==
    \A d \in 0..3 :
        Towards(c, d) \in CellsOf(g) =>
            RemovedOptions(Dom(g, c), Dom(g, Towards(c, d)), d) = {}

NoRepeat(seq) == \A i, j \in DOMAIN seq : seq[i] = seq[j] => i = j

\* The worklist never holds a coordinate twice, and a cell is pushed only
\* with a write to it: it is popped at most as often as it was written (once
\* more for the start cell).
WorklistDiscipline(call) ==
    LET log == PopsOf(call.pre, call.at[1], call.at[2])
    IN  /\ [k \in DOMAIN log |-> log[k].cell] = call.prop.pops
        /\ \A k \in DOMAIN log : NoRepeat(log[k].stack)
        /\ NoRepeat(call.prop.stack)
        /\ \A c \in CellsOf(call.pre) :
              Cardinality({k \in DOMAIN log : log[k].cell = c})
                <= Cardinality({k \in DOMAIN call.prop.writes :
                                    call.prop.writes[k].cell = c})
                    + (IF c = call.at THEN 1 ELSE 0)

\* On success every cell the call wrote to, and the start cell, was popped
\* after the last write to it, and its neighbours hold only tiles its final
\* domain allows.
Reprocessed(call, g) ==
    LET log == PopsOf(call.pre, call.at[1], call.at[2])
    IN  \A c \in Shrunk(call) \cup {call.at} :
            /\ \E k \in DOMAIN log :
                  /\ log[k].cell = c
                  /\ \A j \in DOMAIN call.prop.writes :
                        call.prop.writes[j].cell = c => j <= log[k].writes
            /\ SupportsNeighbours(g, c)

Undecided(g) == {c \in CellsOf(g) : Cardinality(Dom(g, c)) > 1}

\* C24: a call of biome_wfc_step collapses at most one cell, the one the
\* selector returned: every other cell that changed was written by the
\* propagation. A call that returns Running collapsed the selected cell from
\* more than one tile to the chosen one, and leaves fewer undecided cells
\* than it found. A call in which the selector finds no cell changes nothing.
C24_OneCollapsePerStep ==
    last.op = "step" =>
        /\ last.sel = NoneCell => (last.chosen = NoneTile /\ grid = last.pre)
        /\ last.chosen # NoneTile =>
              /\ last.sel \in Undecided(last.pre)
              /\ last.chosen \in Dom(last.pre, last.sel)
              /\ Dom(grid, last.sel) \subseteq {last.chosen}
        /\ \A c \in CellsOf(grid) \ {last.sel} :
              Dom(grid, c) # Dom(last.pre, c) => c \in Shrunk(last)
        /\ (~last.terminated /\ ~last.truncated) =>
              /\ last.chosen # NoneTile
              /\ Dom(grid, last.sel) = {last.chosen}
              /\ Cardinality(Undecided(grid)) < Cardinality(Undecided(last.pre))

\* A Running step after which two cells fewer are undecided: the collapsed
\* one and one that the propagation decided.
RunningStepDecidedTwoCells ==
    /\ last.op = "step" /\ ~last.terminated /\ ~last.truncated
    /\ Cardinality(Undecided(grid)) + 2 <= Cardinality(Undecided(last.pre))

\* c comes before d in the row-major scan: smaller y, then smaller x.
RowMajorBefore(c, d) == c[2] < d[2] \/ (c[2] = d[2] /\ c[1] < d[1])

\* The cells of least domain size among those with more than one tile.
MinimalCells(g) ==
    {c \in Undecided(g) :
        \A d \in Undecided(g) : Cardinality(Dom(g, c)) <= Cardinality(Dom(g, d))}

\* C25: find_lowest_entropy_cell returns, when it returns a cell, one of the
\* cells of least domain size among those with more than one tile; in
\* deterministic mode the first of them in row-major order.
C25_SelectorMinimumRowMajor ==
    (last.op = "select" /\ last.sel # NoneCell) =>
        /\ last.sel \in MinimalCells(grid)
        /\ last.deterministic =>
              \A d \in MinimalCells(grid) \ {last.sel} : RowMajorBefore(last.sel, d)

\* A deterministic call on a grid whose first cell is no candidate and in
\* which cells of both rows tie at the least size.
SelectedFirstOfTiedRows ==
    /\ last.op = "select" /\ last.deterministic /\ last.sel # NoneCell
    /\ <<0, 0>> \notin MinimalCells(grid)
    /\ \E c, d \in MinimalCells(grid) : c[2] < d[2]

\* C26: in stochastic mode, when some tile of the domain has a weight above
\* the threshold, collapse_cell chooses a tile of the domain whose weight is
\* positive (above the threshold, in fact), never one whose weight is zero,
\* negative or missing.
C26_StochasticChoosesWeightedTile ==
    ( /\ last.op = "collapse" /\ ~last.deterministic
      /\ \E t \in Dom(last.pre, last.at) : Max0(WeightAt(last.action_probs, t)) > Eps ) =>
        /\ last.chosen \in Dom(last.pre, last.at)
        /\ WeightAt(last.action_probs, last.chosen) > Eps
        /\ Dom(grid, last.at) = {last.chosen}

\* A stochastic collapse of a cell that holds a tile above the threshold, a
\* tile of weight zero or less, and a tile the vector has no entry for.
DrewAmongWeightedAndUnweighted ==
    /\ last.op = "collapse" /\ ~last.deterministic /\ last.chosen # NoneTile
    /\ \E t, u, v \in Dom(last.pre, last.at) :
          /\ WeightAt(last.action_probs, t) > Eps
          /\ TileToIndex(u) + 1 \in DOMAIN last.action_probs
          /\ last.action_probs[TileToIndex(u) + 1] <= 0
          /\ TileToIndex(v) + 1 \notin DOMAIN last.action_probs

\* The slice the driver fills for the direction opposite to that of slice d.
OppositeSlice(d) ==
    CHOOSE o \in 0..3 : DIRECTIONS[o + 1] = OPPOSITE_DIRECTION[DIRECTIONS[d + 1]]

\* Tile i of the declarations has a label for the direction named dir.
HasLabel(i, dir) ==
    "edges" \in DOMAIN TILES[i] /\ dir \in DOMAIN TILES[i].edges

\* C27: in the matrix the driver builds, tile a is compatible with tile b in
\* the direction of slice d exactly when a's label for that direction equals
\* b's label for the opposite direction (a missing label equals nothing),
\* and so compatible(a, d, b) is compatible(b, opposite(d), a).
C27_MatrixIsFacingLabelEquality ==
    last.op = "build" =>
        \A i \in DOMAIN TILES, j \in DOMAIN TILES, d \in 0..3 :
            LET dir == DIRECTIONS[d + 1]
                opp == OPPOSITE_DIRECTION[dir]
            IN  /\ adjacency_bool[i - 1][d][j - 1]
                      <=> ( /\ HasLabel(i, dir) /\ HasLabel(j, opp)
                            /\ TILES[i].edges[dir] = TILES[j].edges[opp] )
                /\ adjacency_bool[i - 1][d][j - 1]
                      <=> adjacency_bool[j - 1][OppositeSlice(d)][i - 1]

\* A matrix built from two tiles of which one has different labels on two
\* opposite sides, with a compatible and an incompatible pair.
BuiltFromUnevenTile ==
    /\ last.op = "build" /\ Len(TILES) = 2
    /\ \E i \in DOMAIN TILES :
          /\ HasLabel(i, "L") /\ HasLabel(i, "R")
          /\ TILES[i].edges["L"] # TILES[i].edges["R"]
    /\ \E i, j \in 0..1, d \in 0..3 : adjacency_bool[i][d][j]
    /\ \E i, j \in 0..1, d \in 0..3 : ~adjacency_bool[i][d][j]

\* C28: within biome_wfc_step the propagation runs exactly when collapse_cell
\* collapsed the selected cell, and then it is the propagation from that
\* cell on the grid in which the cell holds the chosen tile alone; it does
\* not run when the selector found no cell or the collapse failed.
C28_PropagationFollowsCollapse ==
    last.op = "step" =>
        /\ last.propagated <=> (last.sel # NoneCell /\ last.chosen # NoneTile)
        /\ last.propagated =>
              /\ Dom(Collapsed(last), last.sel) = {last.chosen}
              /\ last.prop = PropagateConstraints(Collapsed(last), last.sel[1], last.sel[2])
              /\ last.prop.pops[1] = last.sel
        /\ ~last.propagated =>
              /\ last.prop = NoProp(grid)
              /\ grid = last.pre

\* A step whose collapse failed on a cell with neighbours it does not
\* support: a propagation from it would have revised them.
FailedCollapseNextToUnsupported ==
    /\ last.op = "step" /\ last.sel # NoneCell /\ last.chosen = NoneTile
    /\ ~SupportsNeighbours(grid, last.sel)

\* C29: once biome_wfc_step has returned terminated = True, the grid is and
\* stays fully collapsed, and every later call on it, with any weights and
\* mode, returns (True, False) and leaves every domain as it was. (Each call
\* is made on the grid the call before it left.)
C29_TerminatedIsAbsorbing ==
    /\ [][last'.op = "step" => last'.pre = grid]_vars
    /\ []( (last.op = "step" /\ last.terminated) =>
              []( /\ AllCollapsed(grid)
                  /\ last.op = "step" =>
                        /\ last.terminated /\ ~last.truncated
                        /\ AllCollapsed(last.pre) => grid = last.pre ) )

\* A call on a finished grid of several cells: the selector found no cell and
\* the call returned Terminated.
SteppedAFinishedGrid ==
    /\ last.op = "step" /\ last.terminated /\ last.sel = NoneCell
    /\ Cardinality(CellsOf(grid)) >= 2 /\ Len(tile_symbols) >= 2

\* C30: biome_wfc_step never returns terminated = True together with
\* truncated = True, in either mode, and WFCWrapper.step, with its step
\* limit, never reports both.
C30_NeverBothFlags ==
    last.op = "env_step" =>
        /\ ~(last.terminated /\ last.truncated)
        /\ \A deterministic \in BOOLEAN :
              \A out \in BiomeWfcStep(last.pre, last.action_probs, deterministic) :
                  ~(out.terminated /\ out.truncated)

\* The same for biome_wfc_step called on any grid.
CoreNeverBothFlags ==
    last.op = "step" => ~(last.terminated /\ last.truncated)

\* A step of the wrapper on a grid that holds an empty cell and no undecided
\* cell: the whole-grid scan ran and found the contradiction.
WrapperSteppedAfterContradiction ==
    /\ last.op = "env_step" /\ last.sel = NoneCell
    /\ HasEmptyDomain(last.pre) /\ last.truncated

\* C31: a decided cell keeps its tile: once a cell's domain is the singleton
\* {t} after a step, it is still {t} after every later step that does not
\* return Truncated; and after a step that collapsed a cell and did not
\* return Truncated, the selected cell's domain is exactly the chosen tile.
C31_DecidedCellKeepsItsTile ==
    (last.op = "step" /\ ~last.truncated) =>
        /\ \A ct \in decided : Dom(grid, ct[1]) = {ct[2]}
        /\ last.sel # NoneCell => Dom(grid, last.sel) = {last.chosen}

\* The part of C31 that holds: a decided cell is as it was after every step
\* that does not return Truncated, so it can only lose its tile in a step
\* that returns Truncated.
DecidedCellLostOnlyInTruncatedStep ==
    last.op = "step" /\ ~last.truncated =>
        \A c \in CellsOf(grid) :
            Cardinality(Dom(last.pre, c)) = 1 => Dom(grid, c) = Dom(last.pre, c)

\* The last part of C31, which holds as well.
SelectedCellHoldsChosenTile ==
    (last.op = "step" /\ ~last.truncated /\ last.sel # NoneCell) =>
        Dom(grid, last.sel) = {last.chosen}

\* C32: for every map_length and map_width, the grid of a WFCWrapper has
\* map_length rows and map_width columns, so no read grid[y][x] with y below
\* map_length and x below map_width is out of bounds (reset and step never
\* end in IndexError), and every cell (x, y) the selector can return has x
\* below map_width and y below map_length.
C32_GridMatchesMapDimensions ==
    env # Absent =>
        /\ Height(grid) = env.map_length /\ Width(grid) = env.map_width
        /\ ~last.raised
        /\ \A c \in FindLowestEntropyCell(grid, FALSE) :
              c # NoneCell => (c[1] < env.map_width /\ c[2] < env.map_length)

\* What the code gives: the grid has map_width rows and map_length columns,
\* and get_observation raises exactly on the maps that are not square.
GridIsMapTransposed ==
    env # Absent =>
        /\ Height(grid) = env.map_width /\ Width(grid) = env.map_length
        /\ last.op \in {"env_reset", "env_step"} =>
              (last.raised <=> env.map_length # env.map_width)

\* The possible tile that comes first in tile_symbols order.
FirstPossible(possible_tiles) ==
    CHOOSE t \in possible_tiles :
        \A u \in possible_tiles : TileToIndex(t) <= TileToIndex(u)

\* C33: as the docstring of collapse_cell states, in deterministic mode, when
\* the greatest weight among the cell's possible tiles is <= 0, collapse_cell
\* collapses the cell to the first possible tile in tile_symbols order and
\* returns it; it returns None only if the cell was already empty.
C33_DeterministicFallsBackToFirstPossible ==
    (last.op = "collapse" /\ last.deterministic) =>
        /\ ( /\ Dom(last.pre, last.at) # {}
             /\ NoPositiveWeight(last.action_probs, Dom(last.pre, last.at)) ) =>
            /\ last.chosen = FirstPossible(Dom(last.pre, last.at))
            /\ Dom(grid, last.at) = {FirstPossible(Dom(last.pre, last.at))}
        /\ last.chosen = NoneTile => Dom(last.pre, last.at) = {}

====
